---- MODULE Spec2Model ----
(***************************************************************************)
(* pdfquery: the query layer (createQueryEngine, the selector matcher and  *)
(* the mutation-tracking QueryResult) over a VirtualDoc produced by the    *)
(* DocCompiler or the tree adapter.                                        *)
(*                                                                         *)
(* JavaScript strings are sequences of one-character strings, so that the  *)
(* selector scanner and its regular expressions are modelled character by  *)
(* character.  JavaScript numbers are integers in hundredths (0.95 is 95). *)
(***************************************************************************)
EXTENDS Integers, Sequences, FiniteSets

VARIABLES compiler, ents, doc, engine, result, derived, promises, pure, last

vars == <<compiler, ents, doc, engine, result, derived, promises, pure, last>>

----------------------------------------------------------------------------
(* Bounds                                                                  *)

MaxVersion == 3
MaxEntities == 4
MaxDocEdits == 1
\* markdown() calls per run
MaxCalls == 2

\* the number of reset() calls in a run
MaxResets == 2

----------------------------------------------------------------------------
(* String constants                                                        *)

\* the names of the meta keys and of the entity fields
Key ==
  [verified |-> <<"v", "e", "r", "i", "f", "i", "e", "d">>,
   verificationStatus |-> <<"v", "e", "r", "i", "f", "i", "c", "a", "t", "i", "o", "n", "S", "t", "a", "t", "u", "s">>,
   verifiedBy |-> <<"v", "e", "r", "i", "f", "i", "e", "d", "B", "y">>,
   verifiedAt |-> <<"v", "e", "r", "i", "f", "i", "e", "d", "A", "t">>,
   confidence |-> <<"c", "o", "n", "f", "i", "d", "e", "n", "c", "e">>,
   wasCorrected |-> <<"w", "a", "s", "C", "o", "r", "r", "e", "c", "t", "e", "d">>,
   correctionType |-> <<"c", "o", "r", "r", "e", "c", "t", "i", "o", "n", "T", "y", "p", "e">>,
   source |-> <<"s", "o", "u", "r", "c", "e">>,
   processorType |-> <<"p", "r", "o", "c", "e", "s", "s", "o", "r", "T", "y", "p", "e">>,
   flagReason |-> <<"f", "l", "a", "g", "R", "e", "a", "s", "o", "n">>,
   flaggedBy |-> <<"f", "l", "a", "g", "g", "e", "d", "B", "y">>,
   flaggedAt |-> <<"f", "l", "a", "g", "g", "e", "d", "A", "t">>,
   highlight |-> <<"h", "i", "g", "h", "l", "i", "g", "h", "t">>,
   selected |-> <<"s", "e", "l", "e", "c", "t", "e", "d">>,
   text |-> <<"t", "e", "x", "t">>,
   value |-> <<"v", "a", "l", "u", "e">>,
   type |-> <<"t", "y", "p", "e">>,
   id |-> <<"i", "d">>,
   pageIndex |-> <<"p", "a", "g", "e", "I", "n", "d", "e", "x">>,
   bbox |-> <<"b", "b", "o", "x">>,
   meta |-> <<"m", "e", "t", "a">>,
   note |-> <<"n", "o", "t", "e">>,
   proto |-> <<"_", "_", "p", "r", "o", "t", "o", "_", "_">>,
   imageUrl |-> <<"i", "m", "a", "g", "e", "U", "r", "l">>,
   force |-> <<"f", "o", "r", "c", "e">>,
   transformation |-> <<"t", "r", "a", "n", "s", "f", "o", "r", "m", "a", "t", "i", "o", "n">>]

\* entity types, verification statuses, sources and other string values
Name ==
  [pending |-> <<"p", "e", "n", "d", "i", "n", "g">>,
   flagged |-> <<"f", "l", "a", "g", "g", "e", "d">>,
   ocr |-> <<"o", "c", "r">>,
   system |-> <<"s", "y", "s", "t", "e", "m">>,
   table |-> <<"t", "a", "b", "l", "e">>,
   figure |-> <<"f", "i", "g", "u", "r", "e">>,
   summary |-> <<"s", "u", "m", "m", "a", "r", "y">>,
   footnote |-> <<"f", "o", "o", "t", "n", "o", "t", "e">>,
   signature |-> <<"s", "i", "g", "n", "a", "t", "u", "r", "e">>,
   unknown |-> <<"u", "n", "k", "n", "o", "w", "n">>,
   document |-> <<"d", "o", "c", "u", "m", "e", "n", "t">>,
   heading |-> <<"h", "e", "a", "d", "i", "n", "g">>,
   paragraph |-> <<"p", "a", "r", "a", "g", "r", "a", "p", "h">>,
   header |-> <<"h", "e", "a", "d", "e", "r">>,
   ocr_block |-> <<"o", "c", "r", "-", "b", "l", "o", "c", "k">>,
   markdown |-> <<"m", "a", "r", "k", "d", "o", "w", "n">>,
   low |-> <<"l", "o", "w">>,
   ai_correction |-> <<"a", "i", "_", "c", "o", "r", "r", "e", "c", "t", "i", "o", "n">>,
   total |-> <<"t", "o", "t", "a", "l">>,
   subtotal |-> <<"s", "u", "b", "t", "o", "t", "a", "l">>,
   date |-> <<"d", "a", "t", "e">>,
   currency |-> <<"c", "u", "r", "r", "e", "n", "c", "y">>,
   percentage |-> <<"p", "e", "r", "c", "e", "n", "t", "a", "g", "e">>,
   number |-> <<"n", "u", "m", "b", "e", "r">>,
   label |-> <<"l", "a", "b", "e", "l">>]

\* the words of the selector grammar and of String(value)
Token ==
  [true |-> <<"t", "r", "u", "e">>,
   false |-> <<"f", "a", "l", "s", "e">>,
   undefined |-> <<"u", "n", "d", "e", "f", "i", "n", "e", "d">>,
   NaN |-> <<"N", "a", "N">>,
   first |-> <<"f", "i", "r", "s", "t">>,
   last |-> <<"l", "a", "s", "t">>,
   even |-> <<"e", "v", "e", "n">>,
   odd |-> <<"o", "d", "d">>,
   eq |-> <<"e", "q">>,
   gt |-> <<"g", "t">>,
   lt |-> <<"l", "t">>,
   contains |-> <<"c", "o", "n", "t", "a", "i", "n", "s">>,
   synthetic |-> <<"s", "y", "n", "t", "h", "e", "t", "i", "c", "_">>,
   page |-> <<"p", "a", "g", "e">>,
   pages |-> <<"p", "a", "g", "e", "s">>]

----------------------------------------------------------------------------
(* Characters and string helpers                                           *)

Digits == {"0", "1", "2", "3", "4", "5", "6", "7", "8", "9"}

UpperLetters ==
  <<"A", "B", "C", "D", "E", "F", "G", "H", "I", "J", "K", "L", "M",
    "N", "O", "P", "Q", "R", "S", "T", "U", "V", "W", "X", "Y", "Z">>

LowerLetterSeq ==
  <<"a", "b", "c", "d", "e", "f", "g", "h", "i", "j", "k", "l", "m",
    "n", "o", "p", "q", "r", "s", "t", "u", "v", "w", "x", "y", "z">>

UpperToLower ==
  [c \in {UpperLetters[i] : i \in 1..26} |->
     LowerLetterSeq[CHOOSE i \in 1..26 : UpperLetters[i] = c]]

LowerLetters == {LowerLetterSeq[i] : i \in 1..26}

\* \w of the regular expressions
WordChar(c) == c \in LowerLetters \cup DOMAIN UpperToLower \cup Digits \cup {"_"}

\* [\w-] of the scanner
IdentChar(c) == WordChar(c) \/ c = "-"

SpaceChar(c) == c = " "

\* s.slice(from, to) with 0-based from (inclusive) and to (exclusive)
Slice(s, from, to) ==
  IF to <= from THEN <<>> ELSE [i \in 1..(to - from) |-> s[from + i]]

SliceFrom(s, from) == Slice(s, from, Len(s))

StartsWith(s, p) == Len(p) <= Len(s) /\ Slice(s, 0, Len(p)) = p

EndsWith(s, p) == Len(p) <= Len(s) /\ Slice(s, Len(s) - Len(p), Len(s)) = p

Includes(s, p) ==
  \E i \in 0..(Len(s) - Len(p)) : Slice(s, i, i + Len(p)) = p

ToLowerCase(s) ==
  [i \in 1..Len(s) |-> IF s[i] \in DOMAIN UpperToLower THEN UpperToLower[s[i]] ELSE s[i]]

\* number of leading characters of s (from 0-based position i) satisfying a class
RECURSIVE RunOfWord(_, _)
RunOfWord(s, i) ==
  IF i < Len(s) /\ WordChar(s[i + 1]) THEN 1 + RunOfWord(s, i + 1) ELSE 0

RECURSIVE RunOfIdent(_, _)
RunOfIdent(s, i) ==
  IF i < Len(s) /\ IdentChar(s[i + 1]) THEN 1 + RunOfIdent(s, i + 1) ELSE 0

RECURSIVE RunOfDigits(_, _)
RunOfDigits(s, i) ==
  IF i < Len(s) /\ s[i + 1] \in Digits THEN 1 + RunOfDigits(s, i + 1) ELSE 0

RECURSIVE RunOfSpaces(_, _)
RunOfSpaces(s, i) ==
  IF i < Len(s) /\ SpaceChar(s[i + 1]) THEN 1 + RunOfSpaces(s, i + 1) ELSE 0

RECURSIVE TrailingSpaces(_)
TrailingSpaces(s) ==
  IF Len(s) > 0 /\ SpaceChar(s[Len(s)]) THEN 1 + TrailingSpaces(Slice(s, 0, Len(s) - 1)) ELSE 0

\* String.prototype.trim
Trim(s) ==
  LET a == RunOfSpaces(s, 0)
  IN  IF a = Len(s) THEN <<>> ELSE Slice(s, a, Len(s) - TrailingSpaces(s))

DigitValue(c) ==
  CASE c = "0" -> 0 [] c = "1" -> 1 [] c = "2" -> 2 [] c = "3" -> 3 [] c = "4" -> 4
    [] c = "5" -> 5 [] c = "6" -> 6 [] c = "7" -> 7 [] c = "8" -> 8 [] c = "9" -> 9

DigitChar(d) ==
  CASE d = 0 -> "0" [] d = 1 -> "1" [] d = 2 -> "2" [] d = 3 -> "3" [] d = 4 -> "4"
    [] d = 5 -> "5" [] d = 6 -> "6" [] d = 7 -> "7" [] d = 8 -> "8" [] d = 9 -> "9"

\* value of a run of decimal digits
RECURSIVE DigitsValue(_)
DigitsValue(s) ==
  IF Len(s) = 0 THEN 0
  ELSE 10 * DigitsValue(Slice(s, 0, Len(s) - 1)) + DigitValue(s[Len(s)])

RECURSIVE NatToString(_)
NatToString(n) ==
  IF n < 10 THEN <<DigitChar(n)>> ELSE NatToString(n \div 10) \o <<DigitChar(n % 10)>>

\* a.replace(/^["']|["']$/g, ''): one leading and one trailing quote removed
StripQuotes(s) ==
  LET q(c) == c = "'" \/ c = "\""
      a == IF Len(s) > 0 /\ q(s[1]) THEN 1 ELSE 0
      r == SliceFrom(s, a)
      b == IF Len(r) > 0 /\ q(r[Len(r)]) THEN 1 ELSE 0
  IN  Slice(r, 0, Len(r) - b)

\* s.split(ch): the pieces of s between the occurrences of the character ch
RECURSIVE Split(_, _)
Split(s, ch) ==
  IF \E i \in 1..Len(s) : s[i] = ch
  THEN <<Slice(s, 0, (CHOOSE i \in 1..Len(s) : s[i] = ch /\ \A j \in 1..(i - 1) : s[j] # ch) - 1)>>
       \o Split(SliceFrom(s, CHOOSE i \in 1..Len(s) : s[i] = ch /\ \A j \in 1..(i - 1) : s[j] # ch), ch)
  ELSE <<s>>

\* number of characters of s from the 0-based position i that are in the set
RECURSIVE RunOfChars(_, _, _)
RunOfChars(s, i, chars) ==
  IF i < Len(s) /\ s[i + 1] \in chars THEN 1 + RunOfChars(s, i + 1, chars) ELSE 0

\* x / y on numbers of the model: the quotient rounded to the nearest number
\* the model can hold (a double rounds in its 53rd bit, the model in the
\* second decimal place), ties to even
Divide(x, y) ==
  LET q == (2 * x + y) \div (2 * y)
  IN  IF (2 * x + y) % (2 * y) = 0 /\ q % 2 = 1 THEN q - 1 ELSE q

----------------------------------------------------------------------------
(* JavaScript values                                                       *)

JUndefined == [t |-> "undefined", b |-> FALSE, n |-> 0, s |-> <<>>]
JNaN == [t |-> "nan", b |-> FALSE, n |-> 0, s |-> <<>>]
JBool(x) == [t |-> "boolean", b |-> x, n |-> 0, s |-> <<>>]
JNum(x) == [t |-> "number", b |-> FALSE, n |-> x, s |-> <<>>]
JStr(x) == [t |-> "string", b |-> FALSE, n |-> 0, s |-> x]
\* an object (bbox, meta); n is its identity
JObj(x) == [t |-> "object", b |-> FALSE, n |-> x, s |-> <<>>]
\* no such property on the object ('key in obj' is false)
Absent == [t |-> "absent", b |-> FALSE, n |-> 0, s |-> <<>>]
\* Object.prototype, the prototype of every object literal
ObjectPrototype == JObj(0)

\* a === b
StrictEquals(a, b) == a.t # "nan" /\ a = b

\* Boolean(v)
ToBoolean(v) ==
  CASE v.t = "boolean" -> v.b
    [] v.t = "number" -> v.n # 0
    [] v.t = "string" -> Len(v.s) > 0
    [] v.t = "object" -> TRUE
    [] OTHER -> FALSE

\* the fraction digits of a decimal literal, in hundredths
FractionValue(f) ==
  IF Len(f) = 0 THEN 0
  ELSE IF Len(f) = 1 THEN 10 * DigitValue(f[1])
  ELSE 10 * DigitValue(f[1]) + DigitValue(f[2])

\* the longest decimal-literal prefix of s from position i:
\* [len |-> number of characters, n |-> value], len = 0 when there is none
DecimalPrefix(s, i) ==
  LET sign == IF i < Len(s) /\ s[i + 1] \in {"-", "+"} THEN 1 ELSE 0
      neg == sign = 1 /\ s[i + 1] = "-"
      ip == RunOfDigits(s, i + sign)
      dot == i + sign + ip < Len(s) /\ s[i + sign + ip + 1] = "."
      fp == IF dot THEN RunOfDigits(s, i + sign + ip + 1) ELSE 0
      mag == 100 * DigitsValue(Slice(s, i + sign, i + sign + ip))
             + FractionValue(Slice(s, i + sign + ip + 1, i + sign + ip + 1 + fp))
  IN  IF ip + fp = 0 THEN [len |-> 0, n |-> 0]
      ELSE [len |-> sign + ip + (IF dot THEN 1 + fp ELSE 0),
            n |-> IF neg THEN 0 - mag ELSE mag]

\* parseFloat(s)
parseFloat(s) ==
  LET d == DecimalPrefix(s, RunOfSpaces(s, 0))
  IN  IF d.len = 0 THEN JNaN ELSE JNum(d.n)

\* parseInt(s, 10)
parseInt(s) ==
  LET i == RunOfSpaces(s, 0)
      sign == IF i < Len(s) /\ s[i + 1] \in {"-", "+"} THEN 1 ELSE 0
      ip == RunOfDigits(s, i + sign)
      mag == 100 * DigitsValue(Slice(s, i + sign, i + sign + ip))
  IN  IF ip = 0 THEN JNaN
      ELSE JNum(IF sign = 1 /\ s[i + 1] = "-" THEN 0 - mag ELSE mag)

\* Number(v)
ToNumber(v) ==
  CASE v.t = "number" -> v
    [] v.t = "boolean" -> JNum(IF v.b THEN 100 ELSE 0)
    [] v.t = "string" ->
         LET tr == Trim(v.s)
             d == DecimalPrefix(tr, 0)
         IN  IF Len(tr) = 0 THEN JNum(0)
             ELSE IF d.len = Len(tr) /\ d.len > 0 THEN JNum(d.n) ELSE JNaN
    [] OTHER -> JNaN

\* String(n) of a number held in hundredths
NumberToString(n) ==
  LET mag == IF n < 0 THEN 0 - n ELSE n
      ip == NatToString(mag \div 100)
      f == mag % 100
      fs == IF f = 0 THEN <<>>
            ELSE IF f % 10 = 0 THEN <<".", DigitChar(f \div 10)>>
            ELSE <<".", DigitChar(f \div 10), DigitChar(f % 10)>>
  IN  (IF n < 0 THEN <<"-">> ELSE <<>>) \o ip \o fs

\* String(v)
JsString(v) ==
  CASE v.t = "string" -> v.s
    [] v.t = "number" -> NumberToString(v.n)
    [] v.t = "boolean" -> IF v.b THEN Token.true ELSE Token.false
    [] v.t = "nan" -> Token.NaN
    [] v.t = "object" -> <<"[", "o", "b", "j", "e", "c", "t", " ", "O", "b", "j", "e", "c", "t", "]">>
    [] OTHER -> Token.undefined

\* a < b on numbers; any comparison with NaN is false
NumLess(a, b) == a.t = "number" /\ b.t = "number" /\ a.n < b.n
NumLessEq(a, b) == a.t = "number" /\ b.t = "number" /\ a.n <= b.n

----------------------------------------------------------------------------
(* Entities                                                                *)

\* the keys buildMeta always creates
BuiltMetaKeys ==
  {Key.verified, Key.verificationStatus, Key.verifiedBy, Key.verifiedAt, Key.confidence,
   Key.wasCorrected, Key.correctionType, Key.source, Key.processorType, Key.flagReason,
   Key.flaggedBy, Key.flaggedAt}

\* the keys createEntityMeta of the tree adapter creates
TreeMetaKeys ==
  {Key.verified, Key.verificationStatus, Key.confidence, Key.wasCorrected, Key.source,
   Key.processorType}

\* every key an entity.meta of the model may hold.  meta['__proto__'] is the
\* accessor every object literal inherits: it reads the prototype of meta,
\* 'in' finds it, an assignment replaces the prototype when the value is an
\* object and does nothing otherwise, and delete leaves it in place
MetaKeys == BuiltMetaKeys \cup {Key.highlight, Key.selected, Key.note, Key.id, Key.proto}

\* entity[key] for the top-level properties, Absent when the entity has none
\* entity._data: absent, or a bag of values by key
NoData == [present |-> FALSE, bag |-> <<>>]

TopField(entity, key) ==
  CASE key = Key.id -> JStr(entity.id)
    [] key = Key.type -> entity.type
    [] key = Key.text -> entity.text
    [] key = Key.value -> entity.value
    [] key = Key.pageIndex -> JNum(100 * entity.pageIndex)
    [] key = Key.bbox -> JObj(1)
    [] key = Key.meta -> JObj(2)
    [] OTHER -> Absent

MetaField(entity, key) == IF key \in MetaKeys THEN entity.meta[key] ELSE Absent

getEntityValue(entity, key) ==
  IF MetaField(entity, key) # Absent THEN MetaField(entity, key)
  ELSE IF TopField(entity, key) # Absent THEN TopField(entity, key)
  ELSE JUndefined

----------------------------------------------------------------------------
(* Selector matching                                                       *)

\* the scanner loop of parseCompoundSelector, from position i
RECURSIVE ScanCompound(_, _, _)
ScanCompound(selector, i, parts) ==
  IF i >= Len(selector) THEN parts
  ELSE
    LET char == selector[i + 1] IN
    IF char = "." \/ char = "#" THEN
      LET n == RunOfIdent(selector, i + 1)
          part == Slice(selector, i, i + 1 + n)
      IN  ScanCompound(selector, i + 1 + n,
                       IF Len(part) > 1 THEN Append(parts, part) ELSE parts)
    ELSE IF char = "[" THEN
      LET close == CHOOSE j \in (i + 1)..Len(selector) :
                     /\ j = Len(selector) \/ selector[j + 1] = "]"
                     /\ \A k \in (i + 1)..(j - 1) : selector[k + 1] # "]"
          stop == IF close < Len(selector) THEN close + 1 ELSE close
      IN  ScanCompound(selector, stop, Append(parts, Slice(selector, i, stop)))
    ELSE IF char = ":" THEN
      LET n == RunOfIdent(selector, i + 1)
          j == i + 1 + n
          \* position after the balanced parenthesis group opened at j
          ParenEnd[k \in j..Len(selector), depth \in 0..Len(selector)] ==
            IF k >= Len(selector) \/ depth = 0 THEN k
            ELSE ParenEnd[k + 1,
                          IF selector[k + 1] = "(" THEN depth + 1
                          ELSE IF selector[k + 1] = ")" THEN depth - 1
                          ELSE depth]
          stop == IF j < Len(selector) /\ selector[j + 1] = "("
                  THEN ParenEnd[j + 1, 1] ELSE j
          part == Slice(selector, i, stop)
      IN  ScanCompound(selector, stop,
                       IF Len(part) > 1 THEN Append(parts, part) ELSE parts)
    ELSE IF char = "*" THEN ScanCompound(selector, i + 1, Append(parts, <<"*">>))
    ELSE ScanCompound(selector, i + 1, parts)

parseCompoundSelector(selector) == ScanCompound(selector, 0, <<>>)

\* parseValue of the query layer
parseValue(value) ==
  IF value = Token.true THEN JBool(TRUE)
  ELSE IF value = Token.false THEN JBool(FALSE)
  ELSE IF parseFloat(value) # JNaN THEN parseFloat(value)
  ELSE JStr(StripQuotes(value))

\* /^(\w+)([\^$*]?=)(.+)$/
StringMatch(content) ==
  LET k == RunOfWord(content, 0) IN
  IF k >= 1 /\ Len(content) > k + 1 /\ content[k + 1] = "="
  THEN [ok |-> TRUE, key |-> Slice(content, 0, k), op |-> <<"=">>,
        raw |-> SliceFrom(content, k + 1)]
  ELSE IF k >= 1 /\ Len(content) > k + 2 /\ content[k + 1] \in {"^", "$", "*"}
          /\ content[k + 2] = "="
  THEN [ok |-> TRUE, key |-> Slice(content, 0, k), op |-> <<content[k + 1], "=">>,
        raw |-> SliceFrom(content, k + 2)]
  ELSE [ok |-> FALSE, key |-> <<>>, op |-> <<>>, raw |-> <<>>]

\* the comparison pattern without its optional '=': />|<|!=/
CompMatch_NoOrEqual(content) ==
  LET k == RunOfWord(content, 0) IN
  IF k >= 1 /\ Len(content) > k + 2 /\ content[k + 1] = "!" /\ content[k + 2] = "="
  THEN [ok |-> TRUE, key |-> Slice(content, 0, k), op |-> <<"!", "=">>,
        raw |-> SliceFrom(content, k + 2)]
  ELSE IF k >= 1 /\ Len(content) > k + 1 /\ content[k + 1] \in {">", "<"}
  THEN [ok |-> TRUE, key |-> Slice(content, 0, k), op |-> <<content[k + 1]>>,
        raw |-> SliceFrom(content, k + 1)]
  ELSE [ok |-> FALSE, key |-> <<>>, op |-> <<>>, raw |-> <<>>]

\* /^(\w+)(>=?|<=?|!=)(.+)$/
CompMatch(content) ==
  LET k == RunOfWord(content, 0) IN
  IF k >= 1 /\ Len(content) > k + 2 /\ content[k + 1] \in {">", "<", "!"}
     /\ content[k + 2] = "="
  THEN [ok |-> TRUE, key |-> Slice(content, 0, k), op |-> <<content[k + 1], "=">>,
        raw |-> SliceFrom(content, k + 2)]
  ELSE IF k >= 1 /\ Len(content) > k + 1 /\ content[k + 1] \in {">", "<"}
  THEN [ok |-> TRUE, key |-> Slice(content, 0, k), op |-> <<content[k + 1]>>,
        raw |-> SliceFrom(content, k + 1)]
  ELSE [ok |-> FALSE, key |-> <<>>, op |-> <<>>, raw |-> <<>>]

\* /^(<=?|>=?)(\d+)$/ of :page(...)
PageCompMatch(content) ==
  LET opLen == IF Len(content) >= 2 /\ content[2] = "=" THEN 2 ELSE 1 IN
  IF Len(content) > opLen /\ content[1] \in {"<", ">"}
     /\ RunOfDigits(content, opLen) = Len(content) - opLen
  THEN [ok |-> TRUE, op |-> Slice(content, 0, opLen),
        n |-> DigitsValue(SliceFrom(content, opLen))]
  ELSE [ok |-> FALSE, op |-> <<>>, n |-> 0]

\* /^(\d+)-(\d+)$/ of :pages(...)
PageRangeMatch(rangeStr) ==
  LET a == RunOfDigits(rangeStr, 0)
      b == RunOfDigits(rangeStr, a + 1)
  IN  IF a >= 1 /\ Len(rangeStr) > a + 1 /\ rangeStr[a + 1] = "-"
         /\ b >= 1 /\ a + 1 + b = Len(rangeStr)
      THEN [ok |-> TRUE, start |-> DigitsValue(Slice(rangeStr, 0, a)),
            end |-> DigitsValue(SliceFrom(rangeStr, a + 1))]
      ELSE [ok |-> FALSE, start |-> 0, end |-> 0]

s_containsOpen == <<":">> \o Token.contains \o <<"(">>
s_pageOpen == <<":">> \o Token.page \o <<"(">>
s_pagesOpen == <<":">> \o Token.pages \o <<"(">>

\* a fall-through that lets the part match
NoMatch_Matches == TRUE

\* the result of a selector part no branch of matchesSingleSelector recognises
NoMatch == FALSE

matchesSingleSelector(entity, selector) ==
  IF selector = <<"*">> THEN TRUE
  ELSE IF StartsWith(selector, <<".">>)
  THEN StrictEquals(entity.type, JStr(SliceFrom(selector, 1)))
  ELSE
    LET content == Slice(selector, 1, Len(selector) - 1)
        sm == StringMatch(content)
        cm == CompMatch(content)
        isAttr == StartsWith(selector, <<"[">>) /\ EndsWith(selector, <<"]">>)
    IN
    IF isAttr /\ sm.ok THEN
      LET gv == getEntityValue(entity, sm.key)
          entityValue == IF gv = JUndefined THEN <<>> ELSE JsString(gv)
          targetValue == StripQuotes(sm.raw)
      IN  CASE sm.op = <<"=">> -> entityValue = targetValue
            [] sm.op = <<"^", "=">> -> StartsWith(entityValue, targetValue)
            [] sm.op = <<"$", "=">> -> EndsWith(entityValue, targetValue)
            [] sm.op = <<"*", "=">> -> Includes(entityValue, targetValue)
    ELSE IF isAttr /\ cm.ok THEN
      LET entityValue == getEntityValue(entity, cm.key)
          targetValue == parseValue(cm.raw)
      IN  CASE cm.op = <<"!", "=">> -> JsString(entityValue) # JsString(targetValue)
            [] cm.op = <<">">> -> NumLess(ToNumber(targetValue), ToNumber(entityValue))
            [] cm.op = <<">", "=">> -> NumLessEq(ToNumber(targetValue), ToNumber(entityValue))
            [] cm.op = <<"<">> -> NumLess(ToNumber(entityValue), ToNumber(targetValue))
            [] cm.op = <<"<", "=">> -> NumLessEq(ToNumber(entityValue), ToNumber(targetValue))
    ELSE IF isAttr /\ Len(content) >= 1 /\ RunOfWord(content, 0) = Len(content)
    THEN getEntityValue(entity, content) # JUndefined
    ELSE IF StartsWith(selector, <<"#">>)
    THEN entity.id = SliceFrom(selector, 1)
    ELSE IF StartsWith(selector, s_containsOpen) /\ EndsWith(selector, <<")">>)
    THEN Includes(ToLowerCase(entity.text.s),
                  ToLowerCase(StripQuotes(Slice(selector, 10, Len(selector) - 1))))
    ELSE
      LET pcontent == Slice(selector, 6, Len(selector) - 1)
          page == entity.pageIndex + 1
          pm == PageCompMatch(pcontent)
          isPage == StartsWith(selector, s_pageOpen) /\ EndsWith(selector, <<")">>)
          rm == PageRangeMatch(Slice(selector, 7, Len(selector) - 1))
      IN
      IF isPage /\ pm.ok THEN
        CASE pm.op = <<"<", "=">> -> page <= pm.n
          [] pm.op = <<"<">> -> page < pm.n
          [] pm.op = <<">", "=">> -> page >= pm.n
          [] pm.op = <<">">> -> page > pm.n
      ELSE IF isPage /\ parseInt(pcontent) # JNaN
      THEN 100 * page = parseInt(pcontent).n
      ELSE IF StartsWith(selector, s_pagesOpen) /\ EndsWith(selector, <<")">>) /\ rm.ok
      THEN page >= rm.start /\ page <= rm.end
      ELSE NoMatch

matchesSelector(entity, selector) ==
  IF selector = <<"*">> THEN TRUE
  ELSE
    LET parts == parseCompoundSelector(selector) IN
    IF Len(parts) = 0 THEN FALSE
    ELSE \A i \in 1..Len(parts) : matchesSingleSelector(entity, parts[i])

----------------------------------------------------------------------------
(* DocCompiler: source items to VirtualEntity                              *)

\* a ?? b
Nullish(a, b) == IF a = JUndefined THEN b ELSE a

\* a || b
OrElse(a, b) == IF ToBoolean(a) THEN a ELSE b

\* buildMeta that drops the verified flag it is given
buildMeta_DropsVerified(partial) ==
  [k \in MetaKeys |->
     CASE k = Key.verified -> JBool(FALSE)
       [] k = Key.verificationStatus -> Nullish(partial.verificationStatus, JStr(Name.pending))
       [] k = Key.confidence -> Nullish(partial.confidence, JNum(0))
       [] k = Key.wasCorrected -> Nullish(partial.wasCorrected, JBool(FALSE))
       [] k = Key.source -> Nullish(partial.source, JStr(Name.system))
       [] k = Key.processorType -> partial.processorType
       [] k \in BuiltMetaKeys -> JUndefined
       [] k = Key.proto -> ObjectPrototype
       [] OTHER -> Absent]

buildMeta(partial) ==
  [k \in MetaKeys |->
     CASE k = Key.verified -> Nullish(partial.verified, JBool(FALSE))
       [] k = Key.verificationStatus -> Nullish(partial.verificationStatus, JStr(Name.pending))
       [] k = Key.confidence -> Nullish(partial.confidence, JNum(0))
       [] k = Key.wasCorrected -> Nullish(partial.wasCorrected, JBool(FALSE))
       [] k = Key.source -> Nullish(partial.source, JStr(Name.system))
       [] k = Key.processorType -> partial.processorType
       [] k \in BuiltMetaKeys -> JUndefined
       [] k = Key.proto -> ObjectPrototype
       [] OTHER -> Absent]

\* the fields of a Partial<EntityMeta> that the conversions below leave out
PartialMeta(confidence, status, verified, wasCorrected, source, processorType) ==
  [confidence |-> confidence, verificationStatus |-> status, verified |-> verified,
   wasCorrected |-> wasCorrected, source |-> source, processorType |-> processorType]


\* /^[\$\u00a3\u20ac\u00a5]?\s*-?[\d,]+\.?\d*\s*(?:\u4e07|\u4ebf|\u5343)?$/ on texts
\* whose only currency sign is the dollar and that hold no CJK unit
CURRENCY_PATTERN(t) ==
  LET AfterNumber(i) == i + RunOfSpaces(t, i) = Len(t)
      Number(i) ==
        LET run == RunOfChars(t, i, Digits \cup {","})
            dot == IF i + run < Len(t) /\ t[i + run + 1] = "." THEN 1 ELSE 0
        IN  /\ run >= 1
            /\ AfterNumber(i + run + dot + RunOfDigits(t, i + run + dot))
      Signed(i) == IF i < Len(t) /\ t[i + 1] = "-" THEN Number(i + 1) ELSE Number(i)
      Spaced(i) == Signed(i + RunOfSpaces(t, i))
  IN  IF Len(t) > 0 /\ t[1] = "$" THEN Spaced(1) ELSE Spaced(0)

\* /^-?\d+\.?\d*\s*%$/
PERCENTAGE_PATTERN(t) ==
  LET Rest(i) == LET j == i + RunOfSpaces(t, i) IN j + 1 = Len(t) /\ t[j + 1] = "%"
      Number(i) ==
        LET run == RunOfDigits(t, i)
            dot == IF i + run < Len(t) /\ t[i + run + 1] = "." THEN 1 ELSE 0
        IN  /\ run >= 1
            /\ Rest(i + run + dot + RunOfDigits(t, i + run + dot))
  IN  IF Len(t) > 0 /\ t[1] = "-" THEN Number(1) ELSE Number(0)

\* /^\d{4}[-\/]\d{1,2}[-\/]\d{1,2}$|^\d{1,2}[-\/]\d{1,2}[-\/]\d{2,4}$/
DATE_PATTERN(t) ==
  \E a \in 1..Len(t) : \E b \in (a + 1)..Len(t) :
    /\ \A i \in 1..Len(t) : IF i \in {a, b} THEN t[i] \in {"-", "/"} ELSE t[i] \in Digits
    /\ \/ a - 1 = 4 /\ b - a - 1 \in 1..2 /\ Len(t) - b \in 1..2
       \/ a - 1 \in 1..2 /\ b - a - 1 \in 1..2 /\ Len(t) - b \in 2..4

\* /^-?[\d,]+\.?\d*$/
NUMBER_PATTERN(t) ==
  LET Number(i) ==
        LET run == RunOfChars(t, i, Digits \cup {","})
            dot == IF i + run < Len(t) /\ t[i + run + 1] = "." THEN 1 ELSE 0
        IN  /\ run >= 1
            /\ i + run + dot + RunOfDigits(t, i + run + dot) = Len(t)
  IN  IF Len(t) > 0 /\ t[1] = "-" THEN Number(1) ELSE Number(0)

\* NoLabel stands for a call without the label argument
NoLabel == <<>>

detectEntityType(text, label) ==
  IF Len(label) > 0 /\ Includes(ToLowerCase(label), Name.total) THEN Name.total
  ELSE IF Len(label) > 0 /\ Includes(ToLowerCase(label), Name.subtotal) THEN Name.subtotal
  ELSE IF Len(label) > 0 /\ Includes(ToLowerCase(label), Name.date) THEN Name.date
  ELSE IF CURRENCY_PATTERN(Trim(text)) THEN Name.currency
  ELSE IF PERCENTAGE_PATTERN(Trim(text)) THEN Name.percentage
  ELSE IF DATE_PATTERN(Trim(text)) THEN Name.date
  ELSE IF NUMBER_PATTERN(Trim(text)) THEN Name.number
  ELSE IF Len(Trim(text)) < 50 /\ ~Includes(Trim(text), <<"\n">>) THEN Name.label
  ELSE Key.text

\* /^\|?\s*[-:]+\s*\|/ on a trimmed line
IsSeparatorLine(line) ==
  LET Dashes(i) ==
        LET j == i + RunOfSpaces(line, i)
            run == RunOfChars(line, j, {"-", ":"})
            k == j + run + RunOfSpaces(line, j + run)
        IN  run >= 1 /\ k < Len(line) /\ line[k + 1] = "|"
  IN  \/ Len(line) > 0 /\ line[1] = "|" /\ Dashes(1)
      \/ Dashes(0)

\* line.split('|').map(cell => cell.trim()) without its first and last piece
RowCells(line) ==
  LET pieces == Split(line, "|")
  IN  [i \in 1..(IF Len(pieces) >= 2 THEN Len(pieces) - 2 ELSE 0) |-> Trim(pieces[i + 1])]

\* the loop of parseMarkdownTable over the non-blank lines, rows so far given
RECURSIVE ParseRows(_, _)
ParseRows(lines, rows) ==
  IF Len(lines) = 0 THEN rows
  ELSE IF IsSeparatorLine(Trim(lines[1])) THEN ParseRows(Tail(lines), rows)
  ELSE IF Includes(Trim(lines[1]), <<"|">>) /\ Len(RowCells(Trim(lines[1]))) > 0
  THEN ParseRows(Tail(lines),
                 Append(rows, [cells |-> RowCells(Trim(lines[1])),
                               isHeader |-> Len(rows) = 0]))
  ELSE ParseRows(Tail(lines), rows)

\* Math.max(...lengths, 0)
RECURSIVE MaxCells(_)
MaxCells(rows) ==
  IF Len(rows) = 0 THEN 0
  ELSE IF Len(rows[1].cells) > MaxCells(Tail(rows)) THEN Len(rows[1].cells)
  ELSE MaxCells(Tail(rows))

parseMarkdownTable(markdown) ==
  LET Parsed(rows) == [rows |-> rows, columnCount |-> MaxCells(rows)]
  IN  Parsed(ParseRows(SelectSeq(Split(markdown, "\n"), LAMBDA line : Len(Trim(line)) > 0),
                       <<>>))

tableToEntity(table, pageIndex) ==
  LET status == OrElse(table.verification_status, JStr(Name.pending)) IN
  [id |-> table.id, type |-> JStr(Name.table), text |-> JStr(table.markdown),
   value |-> Absent, tableId |-> Absent, rowIndex |-> Absent, colIndex |-> Absent,
   _data |-> NoData, pageIndex |-> pageIndex, bbox |-> table.bbox,
   meta |-> buildMeta(PartialMeta(Nullish(table.confidence, JNum(0)), status,
                                  JBool(StrictEquals(status, JStr(Key.verified))),
                                  JBool(FALSE), JStr(Name.ocr), JUndefined))]

\* x/y/width/height to xmin/ymin/xmax/ymax
BoxToBbox(b) ==
  [xmin |-> b.x, ymin |-> b.y, xmax |-> b.x + b.width, ymax |-> b.y + b.height]

typeMap(type) ==
  CASE type = Name.table -> JStr(Name.table)
    [] type = Name.figure -> JStr(Name.figure)
    [] type = Name.footnote -> JStr(Name.footnote)
    [] type = Name.summary -> JStr(Key.text)
    [] type = Name.signature -> JStr(Key.text)
    [] OTHER -> JUndefined

extractedEntityToVirtual(entity, pageIndex) ==
  LET status == OrElse(entity.verification_status, JStr(Name.pending)) IN
  [id |-> entity.id,
   type |-> OrElse(OrElse(typeMap(entity.type), JStr(entity.type)), JStr(Name.unknown)),
   text |-> IF Len(entity.caption) > 0
            THEN JStr(entity.title \o <<"\n">> \o entity.caption)
            ELSE JStr(entity.title),
   value |-> Absent, tableId |-> Absent, rowIndex |-> Absent, colIndex |-> Absent,
   _data |-> NoData, pageIndex |-> pageIndex, bbox |-> BoxToBbox(entity.bbox),
   meta |-> buildMeta(PartialMeta(Nullish(entity.confidence, JNum(100)), status,
                                  JBool(StrictEquals(status, JStr(Key.verified))),
                                  JUndefined, JStr(Name.ocr), JUndefined))]

ocrBlockToVirtual(ocr, pageIndex) ==
  LET status == OrElse(ocr.verification_status, JStr(Name.pending)) IN
  [id |-> ocr.id, type |-> JStr(Name.ocr), text |-> JStr(ocr.text),
   value |-> Absent, tableId |-> Absent, rowIndex |-> Absent, colIndex |-> Absent,
   _data |-> NoData, pageIndex |-> pageIndex, bbox |-> BoxToBbox(ocr.bbox),
   meta |-> buildMeta(PartialMeta(ocr.confidence, status,
                                  JBool(StrictEquals(status, JStr(Key.verified))),
                                  JUndefined, JStr(Name.ocr), JUndefined))]


\* text.replace(/[^\d.-]/g, '')
KeepNumberChars(text) == SelectSeq(text, LAMBDA c : c \in Digits \cup {".", "-"})

\* the private method parseValue of DocCompiler
DocCompiler_parseValue(text, type) ==
  IF type \in {Name.currency, Name.number}
  THEN (IF parseFloat(KeepNumberChars(text)) = JNaN THEN JUndefined
        ELSE parseFloat(KeepNumberChars(text)))
  ELSE IF type = Name.percentage
  THEN (IF parseFloat(KeepNumberChars(text)) = JNaN THEN JUndefined
        ELSE JNum(Divide(parseFloat(KeepNumberChars(text)).n, 100)))
  ELSE JUndefined

\* the cell entity of parseTableCells for a cell that is not blank
cellEntity(table, pageIndex, rows, rowIdx, colIdx, rowHeight, colWidth) ==
  [id |-> table.id \o <<"_", "r">> \o NatToString(rowIdx) \o <<"_", "c">> \o NatToString(colIdx),
   type |-> JStr(IF rows[rowIdx + 1].isHeader THEN Name.header
                 ELSE detectEntityType(rows[rowIdx + 1].cells[colIdx + 1], NoLabel)),
   text |-> JStr(rows[rowIdx + 1].cells[colIdx + 1]),
   value |-> DocCompiler_parseValue(rows[rowIdx + 1].cells[colIdx + 1],
                        IF rows[rowIdx + 1].isHeader THEN Name.header
                        ELSE detectEntityType(rows[rowIdx + 1].cells[colIdx + 1], NoLabel)),
   tableId |-> JStr(table.id), rowIndex |-> JNum(100 * rowIdx), colIndex |-> JNum(100 * colIdx),
   _data |-> NoData, pageIndex |-> pageIndex,
   bbox |-> [xmin |-> table.bbox.xmin + colIdx * colWidth,
             ymin |-> table.bbox.ymin + rowIdx * rowHeight,
             xmax |-> table.bbox.xmin + (colIdx + 1) * colWidth,
             ymax |-> table.bbox.ymin + (rowIdx + 1) * rowHeight],
   meta |-> buildMeta(PartialMeta(Nullish(table.confidence, JNum(0)),
                                  OrElse(table.verification_status, JStr(Name.pending)),
                                  JBool(StrictEquals(table.verification_status,
                                                     JStr(Key.verified))),
                                  JBool(FALSE), JStr(Name.ocr), JUndefined))]

\* the cells of the rows from rowIdx on, row by row, blank cells left out
RECURSIVE cellEntities(_, _, _, _, _, _)
cellEntities(table, pageIndex, rows, rowIdx, rowHeight, colWidth) ==
  IF rowIdx >= Len(rows) THEN <<>>
  ELSE [k \in 1..Len(SelectSeq([c \in 1..Len(rows[rowIdx + 1].cells) |-> c - 1],
                               LAMBDA c : Len(Trim(rows[rowIdx + 1].cells[c + 1])) > 0)) |->
          cellEntity(table, pageIndex, rows, rowIdx,
                     SelectSeq([c \in 1..Len(rows[rowIdx + 1].cells) |-> c - 1],
                               LAMBDA c : Len(Trim(rows[rowIdx + 1].cells[c + 1])) > 0)[k],
                     rowHeight, colWidth)]
       \o cellEntities(table, pageIndex, rows, rowIdx + 1, rowHeight, colWidth)

\* parseTableCells that leaves out the header row
parseTableCells_NoHeader(table, pageIndex) ==
  LET Cells(parsed) ==
        IF Len(parsed.rows) = 0 THEN <<>>
        ELSE cellEntities(table, pageIndex, parsed.rows, 1,
                          Divide(table.bbox.ymax - table.bbox.ymin, Len(parsed.rows)),
                          IF parsed.columnCount > 0
                          THEN Divide(table.bbox.xmax - table.bbox.xmin, parsed.columnCount)
                          ELSE table.bbox.xmax - table.bbox.xmin)
  IN  Cells(parseMarkdownTable(table.markdown))

parseTableCells(table, pageIndex) ==
  LET Cells(parsed) ==
        IF Len(parsed.rows) = 0 THEN <<>>
        ELSE cellEntities(table, pageIndex, parsed.rows, 0,
                          Divide(table.bbox.ymax - table.bbox.ymin, Len(parsed.rows)),
                          IF parsed.columnCount > 0
                          THEN Divide(table.bbox.xmax - table.bbox.xmin, parsed.columnCount)
                          ELSE table.bbox.xmax - table.bbox.xmin)
  IN  Cells(parseMarkdownTable(table.markdown))

\* the field entities of the model have no verified_at and no flagged_at
sourceEntityToVirtual(entity, pageIndex) ==
  [id |-> entity.id,
   type |-> JStr(detectEntityType(entity.suggested_value, entity.field_label)),
   text |-> OrElse(entity.verified_value, JStr(entity.suggested_value)),
   value |-> Nullish(entity.suggested_value_numeric, JUndefined),
   tableId |-> Absent, rowIndex |-> Nullish(entity.row_index, JUndefined),
   colIndex |-> Absent, _data |-> NoData, pageIndex |-> pageIndex,
   bbox |-> BoxToBbox(entity.bounding_box),
   meta |-> [buildMeta(PartialMeta(entity.confidence,
                                   OrElse(entity.verification_status, JStr(Name.pending)),
                                   JBool(StrictEquals(OrElse(entity.verification_status,
                                                             JStr(Name.pending)),
                                                      JStr(Key.verified))),
                                   entity.was_corrected, JStr(Name.ocr), JUndefined))
               EXCEPT ![Key.flagReason] = Nullish(entity.flag_reason, JUndefined)]]

\* a markdown block covers the whole page
markdownBlockToVirtual(md, pageIndex) ==
  [id |-> md.id, type |-> JStr(Name.markdown), text |-> JStr(md.content),
   value |-> Absent, tableId |-> Absent, rowIndex |-> Absent, colIndex |-> Absent,
   _data |-> NoData, pageIndex |-> pageIndex,
   bbox |-> [xmin |-> 0, ymin |-> 0, xmax |-> 100, ymax |-> 100],
   meta |-> buildMeta(PartialMeta(Nullish(md.confidence, JNum(100)),
                                  OrElse(md.verification_status, JStr(Name.pending)),
                                  JBool(StrictEquals(OrElse(md.verification_status,
                                                            JStr(Name.pending)),
                                                     JStr(Key.verified))),
                                  JUndefined, JStr(Name.ai_correction), md.model))]

\* Array.prototype.sort((a, b) => a.bbox.ymin - b.bbox.ymin), which is stable
SortByYmin(es) ==
  LET \* the place of es[i] in the sorted array: after the elements of smaller
      \* ymin and after the earlier elements of the same ymin
      place == [i \in 1..Len(es) |->
                  Cardinality({j \in 1..Len(es) :
                                 \/ es[j].bbox.ymin < es[i].bbox.ymin
                                 \/ es[j].bbox.ymin = es[i].bbox.ymin /\ j < i}) + 1]
  IN  [k \in 1..Len(es) |-> es[CHOOSE i \in 1..Len(es) : place[i] = k]]

OnPageNumber(item, pageNum) == item.page = pageNum

TableOnPageNumber(table, pageNum) == table.page_number = pageNum

\* the table entities of a page, each table followed by its cells; the
\* options includeTables, parseTableCells and autoDetectTypes have their
\* default, true
RECURSIVE tableEntities(_, _)
tableEntities(tables, pageIndex) ==
  IF Len(tables) = 0 THEN <<>>
  ELSE <<tableToEntity(tables[1], pageIndex)>>
       \o (IF Len(tables[1].markdown) > 0 THEN parseTableCells(tables[1], pageIndex)
           ELSE <<>>)
       \o tableEntities(Tail(tables), pageIndex)

\* buildPage that leaves the entities in the order of their insertion
buildPage_NoSort(pageNumber, tables, entities, extractedEntities, ocrBlocks, markdownBlocks) ==
  [pageIndex |-> pageNumber - 1,
   entities |->
     tableEntities(tables, pageNumber - 1)
     \o [i \in 1..Len(entities) |-> sourceEntityToVirtual(entities[i], pageNumber - 1)]
     \o [i \in 1..Len(extractedEntities) |->
           extractedEntityToVirtual(extractedEntities[i], pageNumber - 1)]
     \o [i \in 1..Len(ocrBlocks) |-> ocrBlockToVirtual(ocrBlocks[i], pageNumber - 1)]
     \o [i \in 1..Len(markdownBlocks) |->
           markdownBlockToVirtual(markdownBlocks[i], pageNumber - 1)]]

\* buildPage: the entities of one page, in page order
buildPage(pageNumber, tables, entities, extractedEntities, ocrBlocks, markdownBlocks) ==
  [pageIndex |-> pageNumber - 1,
   entities |->
     SortByYmin(
       tableEntities(tables, pageNumber - 1)
       \o [i \in 1..Len(entities) |-> sourceEntityToVirtual(entities[i], pageNumber - 1)]
       \o [i \in 1..Len(extractedEntities) |->
             extractedEntityToVirtual(extractedEntities[i], pageNumber - 1)]
       \o [i \in 1..Len(ocrBlocks) |-> ocrBlockToVirtual(ocrBlocks[i], pageNumber - 1)]
       \o [i \in 1..Len(markdownBlocks) |->
             markdownBlockToVirtual(markdownBlocks[i], pageNumber - 1)])]

\* ascending sequence of the members of a set of numbers
RECURSIVE SortedSeq(_)
SortedSeq(S) ==
  IF S = {} THEN <<>>
  ELSE LET m == CHOOSE x \in S : \A y \in S : x <= y
       IN  <<m>> \o SortedSeq(S \ {m})

\* calculatePageMeta: the counts of one page
calculatePageMeta(entities) ==
  [totalEntities |-> Len(entities),
   verifiedCount |-> Cardinality({i \in 1..Len(entities) :
                       entities[i].meta[Key.verificationStatus] = JStr(Key.verified)}),
   flaggedCount |-> Cardinality({i \in 1..Len(entities) :
                      entities[i].meta[Key.verificationStatus] = JStr(Name.flagged)}),
   pendingCount |-> Cardinality({i \in 1..Len(entities) :
                      entities[i].meta[Key.verificationStatus] = JStr(Name.pending)})]

\* the document-level statistics of compile(): the sums over the pages
RECURSIVE documentMeta(_)
documentMeta(pages) ==
  IF Len(pages) = 0
  THEN [totalPages |-> 0, totalEntities |-> 0, verifiedCount |-> 0, flaggedCount |-> 0,
        pendingCount |-> 0]
  ELSE LET Sum(page, rest) ==
             [totalPages |-> 1 + rest.totalPages,
              totalEntities |-> page.totalEntities + rest.totalEntities,
              verifiedCount |-> page.verifiedCount + rest.verifiedCount,
              flaggedCount |-> page.flaggedCount + rest.flaggedCount,
              pendingCount |-> page.pendingCount + rest.pendingCount]
       IN  Sum(calculatePageMeta(pages[1].entities), documentMeta(Tail(pages)))

\* the page numbers collected without those of the markdown blocks
allPageNumbers_NoMarkdown(src) ==
  {src.tables[i].page_number : i \in 1..Len(src.tables)}
  \cup {src.entities[i].page_number : i \in 1..Len(src.entities)}
  \cup {src.extractedEntities[i].page : i \in 1..Len(src.extractedEntities)}
  \cup {src.ocrBlocks[i].page : i \in 1..Len(src.ocrBlocks)}

\* the page numbers compile() collects from the five layers; pageMap gets a
\* bucket for each of them
allPageNumbers(src) ==
  {src.tables[i].page_number : i \in 1..Len(src.tables)}
  \cup {src.entities[i].page_number : i \in 1..Len(src.entities)}
  \cup {src.extractedEntities[i].page : i \in 1..Len(src.extractedEntities)}
  \cup {src.ocrBlocks[i].page : i \in 1..Len(src.ocrBlocks)}
  \cup {src.markdownBlocks[i].page : i \in 1..Len(src.markdownBlocks)}

\* pageMap.get(n)!.layer.push(item) throws a TypeError when pageMap has no
\* bucket for the page number of an item
compileThrows(src) ==
  \/ \E i \in 1..Len(src.tables) : src.tables[i].page_number \notin allPageNumbers(src)
  \/ \E i \in 1..Len(src.entities) : src.entities[i].page_number \notin allPageNumbers(src)
  \/ \E i \in 1..Len(src.extractedEntities) :
       src.extractedEntities[i].page \notin allPageNumbers(src)
  \/ \E i \in 1..Len(src.ocrBlocks) : src.ocrBlocks[i].page \notin allPageNumbers(src)
  \/ \E i \in 1..Len(src.markdownBlocks) : src.markdownBlocks[i].page \notin allPageNumbers(src)

\* compile(): the pages with their entity records, ascending by page number
compile(src) ==
  LET sortedPageNumbers == SortedSeq(allPageNumbers(src))
      VirtualDoc(pages) ==
        [version |-> src.version, pages |-> pages, meta |-> documentMeta(pages)]
  IN  VirtualDoc(
                 [i \in 1..Len(sortedPageNumbers) |->
                    buildPage(sortedPageNumbers[i],
                              SelectSeq(src.tables,
                                        LAMBDA t : TableOnPageNumber(t, sortedPageNumbers[i])),
                              SelectSeq(src.entities,
                                        LAMBDA e : TableOnPageNumber(e, sortedPageNumbers[i])),
                              SelectSeq(src.extractedEntities,
                                        LAMBDA e : OnPageNumber(e, sortedPageNumbers[i])),
                              SelectSeq(src.ocrBlocks,
                                        LAMBDA o : OnPageNumber(o, sortedPageNumbers[i])),
                              SelectSeq(src.markdownBlocks,
                                        LAMBDA m : OnPageNumber(m, sortedPageNumbers[i])))])

----------------------------------------------------------------------------
(* Tree adapter                                                            *)

TYPE_MAP(type) ==
  CASE type = Name.table -> JStr(Name.table)
    [] type = Name.figure -> JStr(Name.figure)
    [] type = Name.ocr_block -> JStr(Name.ocr)
    [] type = Name.footnote -> JStr(Name.footnote)
    [] type = Name.summary -> JStr(Name.markdown)
    [] type \in {Name.heading, Name.header} -> JStr(Name.header)
    [] type \in {Name.paragraph, Name.signature} -> JStr(Key.text)
    [] OTHER -> JStr(Name.unknown)

createEntityMeta(node, defaultConfidence) ==
  [k \in MetaKeys |->
     CASE k = Key.proto -> ObjectPrototype
       [] k \notin TreeMetaKeys \cup {Key.proto} -> Absent
       [] k = Key.verified -> JBool(FALSE)
       [] k = Key.verificationStatus -> JStr(Name.pending)
       [] k = Key.confidence -> IF node.confidence.t = "number" THEN node.confidence
                              ELSE defaultConfidence
       [] k = Key.wasCorrected -> JBool(FALSE)
       [] k = Key.source -> JStr(Name.ocr)
       [] k = Key.processorType -> JStr(Name.ocr)]

\* flattenTree over the nodes of the tree in the pre-order of traverse,
\* with the default options (includeOcrBlocks, defaultConfidence 0.9)
flattenTree(nodes) ==
  LET Keep(n) == n.type \notin {Name.document, Token.page} /\ n.hasBbox
      ToEntity(n) ==
        [id |-> n.id, type |-> TYPE_MAP(n.type), text |-> JStr(n.textContent),
         value |-> Absent, tableId |-> Absent, rowIndex |-> Absent, colIndex |-> Absent,
   _data |-> NoData, pageIndex |-> n.page - 1, bbox |-> BoxToBbox(n.bbox),
         meta |-> createEntityMeta(n, JNum(90))]
      Kept(kept) == [i \in 1..Len(kept) |-> ToEntity(kept[i])]
  IN  Kept(SelectSeq(nodes, Keep))

OnPageIndex(entity, pageIndex) == entity.pageIndex = pageIndex

treeToVirtualDoc(nodes) ==
  LET entities == flattenTree(nodes)
      pageIndexes == SortedSeq({entities[i].pageIndex : i \in 1..Len(entities)})
  IN  [version |-> 1,
       pages |-> [i \in 1..Len(pageIndexes) |->
                    [pageIndex |-> pageIndexes[i],
                     entities |-> SelectSeq(entities,
                                            LAMBDA e : OnPageIndex(e, pageIndexes[i]))]],
       meta |-> [totalPages |-> Len(pageIndexes),
                 totalEntities |-> Len(entities),
                 verifiedCount |-> Len(SelectSeq(entities,
                                     LAMBDA e : ToBoolean(e.meta[Key.verified]))),
                 flaggedCount |-> Len(SelectSeq(entities,
                                    LAMBDA e : e.meta[Key.verificationStatus] = JStr(Name.flagged))),
                 pendingCount |-> Len(SelectSeq(entities,
                                    LAMBDA e : e.meta[Key.verificationStatus] = JStr(Name.pending)))]]

----------------------------------------------------------------------------
(* Query engine                                                            *)

\* the scanner loop of splitOrSelector, from position i
RECURSIVE ScanOr(_, _, _, _, _)
ScanOr(selector, i, current, depth, parts) ==
  IF i >= Len(selector)
  THEN IF Len(Trim(current)) > 0 THEN Append(parts, Trim(current)) ELSE parts
  ELSE
    LET char == selector[i + 1] IN
    IF char = "[" \/ char = "("
    THEN ScanOr(selector, i + 1, Append(current, char), depth + 1, parts)
    ELSE IF char = "]" \/ char = ")"
    THEN ScanOr(selector, i + 1, Append(current, char), depth - 1, parts)
    ELSE IF char = "," /\ depth = 0
    THEN ScanOr(selector, i + 1, <<>>, depth, Append(parts, Trim(current)))
    ELSE ScanOr(selector, i + 1, Append(current, char), depth, parts)

splitOrSelector(selector) == ScanOr(selector, 0, <<>>, 0, <<>>)

\* number of digits of s that end right before 0-based position e
RECURSIVE DigitsBefore(_, _)
DigitsBefore(s, e) ==
  IF e > 0 /\ s[e] \in Digits THEN 1 + DigitsBefore(s, e - 1) ELSE 0

\* match of /:name$/: 0-based index of the match, -1 when there is none
NameAtEnd(selector, name) ==
  IF EndsWith(selector, <<":">> \o name) THEN Len(selector) - Len(name) - 1 ELSE 0 - 1

\* match of /:name\((\d+)\)$/: [index, value], index -1 when there is none
ArgAtEnd(selector, name) ==
  LET prefix == <<":">> \o name \o <<"(">>
      d == IF EndsWith(selector, <<")">>) THEN DigitsBefore(selector, Len(selector) - 1) ELSE 0
      start == Len(selector) - 1 - d - Len(prefix)
  IN  IF d >= 1 /\ start >= 0 /\ Slice(selector, start, start + Len(prefix)) = prefix
      THEN [index |-> start,
            value |-> DigitsValue(Slice(selector, Len(selector) - 1 - d, Len(selector) - 1))]
      ELSE [index |-> 0 - 1, value |-> 0]

parseIndexPseudoSelector(selector) ==
  LET Base(index) ==
        LET b == IF index = 0 THEN <<"*">> ELSE Slice(selector, 0, index)
        IN  IF Len(Trim(b)) = 0 THEN <<"*">> ELSE Trim(b)
      Simple(name) ==
        [baseSelector |-> Base(NameAtEnd(selector, name)), type |-> name, value |-> 0 - 1]
      Arg(name) ==
        [baseSelector |-> Base(ArgAtEnd(selector, name).index), type |-> name,
         value |-> ArgAtEnd(selector, name).value]
  IN  CASE NameAtEnd(selector, Token.first) >= 0 -> Simple(Token.first)
        [] NameAtEnd(selector, Token.last) >= 0 -> Simple(Token.last)
        [] NameAtEnd(selector, Token.even) >= 0 -> Simple(Token.even)
        [] NameAtEnd(selector, Token.odd) >= 0 -> Simple(Token.odd)
        [] ArgAtEnd(selector, Token.eq).index >= 0 -> Arg(Token.eq)
        [] ArgAtEnd(selector, Token.gt).index >= 0 -> Arg(Token.gt)
        [] ArgAtEnd(selector, Token.lt).index >= 0 -> Arg(Token.lt)
        [] OTHER -> [baseSelector |-> selector, type |-> <<>>, value |-> 0 - 1]

\* Array.prototype.slice(from, to) of a sequence
ArraySlice(a, from, to) ==
  LET f == IF from > Len(a) THEN Len(a) ELSE from
      t == IF to > Len(a) THEN Len(a) ELSE to
  IN  Slice(a, f, t)

\* a.filter((_, i) => i % 2 === parity): the elements at the 0-based
\* positions of that parity
FilterByParity(a, parity) ==
  [k \in 1..((Len(a) + 1 - parity) \div 2) |-> a[2 * k - 1 + parity]]

applyIndexFilter(entities, filter) ==
  CASE filter.type = <<>> -> entities
    [] filter.type = Token.first -> IF Len(entities) > 0 THEN <<entities[1]>> ELSE <<>>
    [] filter.type = Token.last -> IF Len(entities) > 0 THEN <<entities[Len(entities)]>> ELSE <<>>
    [] filter.type = Token.eq ->
         IF filter.value < Len(entities) THEN <<entities[filter.value + 1]>> ELSE <<>>
    [] filter.type = Token.gt -> ArraySlice(entities, filter.value + 1, Len(entities))
    [] filter.type = Token.lt -> ArraySlice(entities, 0, filter.value)
    [] filter.type = Token.even -> FilterByParity(entities, 0)
    [] filter.type = Token.odd -> FilterByParity(entities, 1)

\* refs.filter(e => matchesSelector(e, selector)) over the heap es
FilterMatching(es, refs, selector) ==
  SelectSeq(refs, LAMBDA ref : matchesSelector(es[ref], selector))

\* one branch with the index filter applied to the positions among all
\* entities, before the base matching
BranchMatches_ByAllPositions(es, allEntities, selector) ==
  LET parsed == parseIndexPseudoSelector(selector)
  IN  FilterMatching(es, applyIndexFilter(allEntities, parsed), parsed.baseSelector)

\* one branch: base matching, then the index filter
BranchMatches(es, allEntities, selector) ==
  LET parsed == parseIndexPseudoSelector(selector)
  IN  applyIndexFilter(FilterMatching(es, allEntities, parsed.baseSelector), parsed)

\* the inner loop of an OR branch: the matches whose id is not yet in
\* matchedIds are added, in order
RECURSIVE AddUnmatched(_, _, _, _)
AddUnmatched(es, branchMatches, matchedIds, matched) ==
  IF Len(branchMatches) = 0 THEN [ids |-> matchedIds, out |-> matched]
  ELSE IF es[branchMatches[1]].id \in matchedIds
  THEN AddUnmatched(es, Tail(branchMatches), matchedIds, matched)
  ELSE AddUnmatched(es, Tail(branchMatches), matchedIds \cup {es[branchMatches[1]].id},
                    Append(matched, branchMatches[1]))

\* the loop over the OR branches, with its matchedIds set
RECURSIVE UnionBranches(_, _, _, _, _)
UnionBranches(es, allEntities, selectors, matchedIds, matched) ==
  IF Len(selectors) = 0 THEN matched
  ELSE
    LET Rest(done) == UnionBranches(es, allEntities, Tail(selectors), done.ids, done.out)
    IN  Rest(AddUnmatched(es,
                          IF Len(Trim(selectors[1])) = 0 THEN <<>>
                          ELSE BranchMatches(es, allEntities, Trim(selectors[1])),
                          matchedIds, matched))

\* an engine that stops after the first OR branch
engineQuery_FirstBranch(es, allEntities, selector) ==
  IF selector = <<>> \/ selector = <<"*">> THEN allEntities
  ELSE
    LET selectors == splitOrSelector(selector) IN
    IF Len(selectors) = 1 THEN BranchMatches(es, allEntities, selector)
    ELSE UnionBranches(es, allEntities, <<selectors[1]>>, {}, <<>>)

\* the closure returned by createQueryEngine, for a string selector
engineQuery(es, allEntities, selector) ==
  IF selector = <<>> \/ selector = <<"*">> THEN allEntities
  ELSE
    LET selectors == splitOrSelector(selector) IN
    IF Len(selectors) = 1 THEN BranchMatches(es, allEntities, selector)
    ELSE UnionBranches(es, allEntities, selectors, {}, <<>>)

\* doc.pages.flatMap(page => page.entities)
RECURSIVE FlatMapEntities(_)
FlatMapEntities(pages) ==
  IF Len(pages) = 0 THEN <<>>
  ELSE pages[1].entities \o FlatMapEntities(Tail(pages))

----------------------------------------------------------------------------
(* Read operations of QueryResult                                          *)
(* Each one gives the receiver's elements after the call (self) and what   *)
(* the call returns (out); the sorts give the set of outcomes the build    *)
(* can produce.                                                            *)

\* filter with a string selector: this.elements.filter(...) builds a new array
filtered(es, elements, selector) ==
  [self |-> elements, out |-> FilterMatching(es, elements, selector)]

not(es, elements, selector) ==
  [self |-> elements,
   out |-> SelectSeq(elements, LAMBDA ref : ~matchesSelector(es[ref], selector))]

\* e.text && e.text.toLowerCase().includes(lower)
contains(es, elements, text) ==
  [self |-> elements,
   out |-> SelectSeq(elements,
                     LAMBDA ref : /\ ToBoolean(es[ref].text)
                                  /\ Includes(ToLowerCase(JsString(es[ref].text)),
                                              ToLowerCase(text)))]

\* e.text && pattern.test(e.text), for a pattern that is a literal without flags
matches(es, elements, literal) ==
  [self |-> elements,
   out |-> SelectSeq(elements,
                     LAMBDA ref : /\ ToBoolean(es[ref].text)
                                  /\ Includes(JsString(es[ref].text), literal))]

onPage(es, elements, pageNumber) ==
  [self |-> elements,
   out |-> SelectSeq(elements, LAMBDA ref : es[ref].pageIndex = pageNumber - 1)]

inTable(es, elements, tableId) ==
  [self |-> elements,
   out |-> SelectSeq(elements, LAMBDA ref : StrictEquals(es[ref].tableId, JStr(tableId)))]

take(elements, n) == [self |-> elements, out |-> ArraySlice(elements, 0, n)]

skip(elements, n) == [self |-> elements, out |-> ArraySlice(elements, n, Len(elements))]

\* this.elements[0], 0 standing for undefined
first(elements) == IF Len(elements) > 0 THEN elements[1] ELSE 0

\* this.elements[this.elements.length - 1]
lastElement(elements) == IF Len(elements) > 0 THEN elements[Len(elements)] ELSE 0

eq(elements, index) ==
  [self |-> elements,
   out |-> IF index < Len(elements) THEN <<elements[index + 1]>> ELSE <<>>]

byId(es, elements, id) ==
  [self |-> elements, out |-> SelectSeq(elements, LAMBDA ref : es[ref].id = id)]

\* the orders of n array positions
IndexOrders(n) ==
  {p \in [1..n -> 1..n] : \A i, j \in 1..n : i # j => p[i] # p[j]}

\* Array.prototype.sort calls a comparator consistent when it orders the
\* positions 1..n into classes: v[a, b] is the comparator's result
ConsistentComparator(v, n) ==
  \A a, b, c \in 1..n :
    /\ v[a, a] = 0
    /\ v[a, b] = 0 => v[b, a] = 0
    /\ v[a, b] < 0 => v[b, a] > 0
    /\ v[a, b] > 0 => v[b, a] < 0
    /\ (v[a, b] = 0 /\ v[b, c] = 0) => v[a, c] = 0
    /\ (v[a, b] < 0 /\ v[b, c] < 0) => v[a, c] < 0
    /\ (v[a, b] > 0 /\ v[b, c] > 0) => v[a, c] > 0

\* the order p is ascending by v and keeps the input order of equal elements
StableSorted(p, v, n) ==
  \A i, j \in 1..n :
    i < j => \/ v[p[i], p[j]] < 0
             \/ v[p[i], p[j]] = 0 /\ p[i] < p[j]

\* Array.prototype.sort(comparator): the stable ascending order when the
\* comparator is consistent, otherwise an implementation-defined order
ArraySort(a, v) ==
  {[i \in 1..Len(a) |-> a[p[i]]] :
     p \in IF ConsistentComparator(v, Len(a))
           THEN {q \in IndexOrders(Len(a)) : StableSorted(q, v, Len(a))}
           ELSE IndexOrders(Len(a))}

\* String.prototype.localeCompare for strings of digits and lower-case
\* letters: digits sort before letters, a prefix before its extensions
CharRank(c) ==
  IF c \in Digits THEN DigitValue(c)
  ELSE 10 + (CHOOSE i \in 1..Len(LowerLetterSeq) : LowerLetterSeq[i] = c)

RECURSIVE localeCompare(_, _)
localeCompare(s, t) ==
  IF Len(s) = 0 \/ Len(t) = 0
  THEN (IF Len(s) = Len(t) THEN 0 ELSE IF Len(s) = 0 THEN -1 ELSE 1)
  ELSE IF CharRank(s[1]) # CharRank(t[1])
  THEN (IF CharRank(s[1]) < CharRank(t[1]) THEN -1 ELSE 1)
  ELSE localeCompare(Tail(s), Tail(t))

\* the comparator of sortBy for a key of the entity
sortByCompare(aVal, bVal) ==
  IF aVal.t = "number" /\ bVal.t = "number" THEN aVal.n - bVal.n
  ELSE localeCompare(JsString(aVal), JsString(bVal))

\* [...this.elements].sort(...) sorts a copy, the receiver keeps its array
sortBy(es, elements, key) ==
  {[self |-> elements, out |-> sorted] :
     sorted \in ArraySort(elements,
                          [a, b \in 1..Len(elements) |->
                             sortByCompare(TopField(es[elements[a]], key),
                                           TopField(es[elements[b]], key))])}

\* b.meta.confidence - a.meta.confidence; NaN counts as 0 for the sort
confidenceCompare(a, b) ==
  IF a.meta[Key.confidence].t = "number" /\ b.meta[Key.confidence].t = "number"
  THEN b.meta[Key.confidence].n - a.meta[Key.confidence].n
  ELSE 0

\* the mutant: the receiver's own array is sorted
sortByConfidence_InPlace(es, elements) ==
  {[self |-> sorted, out |-> sorted] :
     sorted \in ArraySort(elements,
                          [a, b \in 1..Len(elements) |->
                             confidenceCompare(es[elements[a]], es[elements[b]])])}

sortByConfidence(es, elements) ==
  {[self |-> elements, out |-> sorted] :
     sorted \in ArraySort(elements,
                          [a, b \in 1..Len(elements) |->
                             confidenceCompare(es[elements[a]], es[elements[b]])])}

\* Math.abs(yDiff) > 0.01, in hundredths
PositionTolerance == 1

Abs(x) == IF x < 0 THEN -x ELSE x

positionCompare(a, b) ==
  IF Abs(a.bbox.ymin - b.bbox.ymin) > PositionTolerance
  THEN a.bbox.ymin - b.bbox.ymin
  ELSE a.bbox.xmin - b.bbox.xmin

sortByPosition(es, elements) ==
  {[self |-> elements, out |-> sorted] :
     sorted \in ArraySort(elements,
                          [a, b \in 1..Len(elements) |->
                             positionCompare(es[elements[a]], es[elements[b]])])}

----------------------------------------------------------------------------
(* QueryResult: tracked mutation                                           *)

metaFields ==
  {Key.verified, Key.verificationStatus, Key.verifiedBy, Key.verifiedAt, Key.confidence,
   Key.wasCorrected, Key.correctionType, Key.source, Key.processorType, Key.flagReason,
   Key.flaggedBy, Key.flaggedAt, Key.highlight, Key.selected}

mutableEntityFields == {Key.text, Key.value, Key.type}

getEntityAttr(entity, key) == getEntityValue(entity, key)

\* the mutant: a key that names a top-level field is written to that field
setEntityAttr_AnyField(entity, key, value) ==
  IF key \in metaFields THEN [entity EXCEPT !.meta[key] = value]
  ELSE IF key \in mutableEntityFields
  THEN CASE key = Key.text -> [entity EXCEPT !.text = value]
         [] key = Key.value -> [entity EXCEPT !.value = value]
         [] key = Key.type -> [entity EXCEPT !.type = value]
  ELSE IF key = Key.id THEN [entity EXCEPT !.id = JsString(value)]
  ELSE IF key = Key.proto /\ value.t # "object" THEN entity
  ELSE [entity EXCEPT !.meta[key] = value]

setEntityAttr(entity, key, value) ==
  IF key \in metaFields THEN [entity EXCEPT !.meta[key] = value]
  ELSE IF key \in mutableEntityFields
  THEN CASE key = Key.text -> [entity EXCEPT !.text = value]
         [] key = Key.value -> [entity EXCEPT !.value = value]
         [] key = Key.type -> [entity EXCEPT !.type = value]
  ELSE IF key = Key.proto /\ value.t # "object" THEN entity
  ELSE [entity EXCEPT !.meta[key] = value]

EntityChange(entity, field, oldValue, newValue) ==
  [entityId |-> entity.id, pageIndex |-> entity.pageIndex, field |-> field,
   oldValue |-> oldValue, newValue |-> newValue]

\* doc.version++ when the condition of the trailing 'if' holds
BumpVersion(st) ==
  IF Len(st.log) > 0 THEN [st EXCEPT !.version = st.version + 1] ELSE st

\* setAttrs without the 'oldValue === newValue' skip
setAttrs_NoSkip(st, elements, attrs) ==
  LET Step[n \in 0..(Len(elements) * Len(attrs))] ==
        IF n = 0 THEN st
        ELSE LET s == Step[n - 1]
                 ref == elements[((n - 1) \div Len(attrs)) + 1]
                 key == attrs[((n - 1) % Len(attrs)) + 1][1]
                 newValue == attrs[((n - 1) % Len(attrs)) + 1][2]
                 entity == s.ents[ref]
                 oldValue == getEntityAttr(entity, key)
             IN  [s EXCEPT
                    !.log = Append(s.log, EntityChange(entity, key, oldValue, newValue)),
                    !.ents[ref] = setEntityAttr(entity, key, newValue)]
  IN  BumpVersion(Step[Len(elements) * Len(attrs)])

\* setAttrs over st = [ents, log, version]: the loops over the elements and
\* over Object.entries(attrs), then the version increment
setAttrs(st, elements, attrs) ==
  LET Step[n \in 0..(Len(elements) * Len(attrs))] ==
        IF n = 0 THEN st
        ELSE LET s == Step[n - 1]
                 ref == elements[((n - 1) \div Len(attrs)) + 1]
                 key == attrs[((n - 1) % Len(attrs)) + 1][1]
                 newValue == attrs[((n - 1) % Len(attrs)) + 1][2]
                 entity == s.ents[ref]
                 oldValue == getEntityAttr(entity, key)
             IN  IF StrictEquals(oldValue, newValue) THEN s
                 ELSE [s EXCEPT
                         !.log = Append(s.log, EntityChange(entity, key, oldValue, newValue)),
                         !.ents[ref] = setEntityAttr(entity, key, newValue)]
  IN  BumpVersion(Step[Len(elements) * Len(attrs)])

\* removeAttr over st = [ents, log, version]
removeAttrs(st, elements, keys) ==
  LET Step[n \in 0..(Len(elements) * Len(keys))] ==
        IF n = 0 THEN st
        ELSE LET s == Step[n - 1]
                 ref == elements[((n - 1) \div Len(keys)) + 1]
                 k == keys[((n - 1) % Len(keys)) + 1]
                 entity == s.ents[ref]
                 oldValue == getEntityAttr(entity, k)
             IN  IF oldValue = JUndefined THEN s
                 ELSE [s EXCEPT
                         !.log = Append(s.log, EntityChange(entity, k, oldValue, JUndefined)),
                         !.ents[ref] = IF MetaField(entity, k) # Absent /\ k # Key.proto
                                       THEN [entity EXCEPT !.meta[k] = Absent]
                                       ELSE entity]
  IN  BumpVersion(Step[Len(elements) * Len(keys)])

\* the value toggleAttr passes to setAttrs for one entity
ToggleValue(entity, key, force) ==
  IF force # JUndefined THEN force ELSE JBool(~ToBoolean(getEntityAttr(entity, key)))

\* the mutant: the version is incremented once more after the loop
toggleAttrs_ExtraIncrement(st, elements, key, force) ==
  LET Step[n \in 0..Len(elements)] ==
        IF n = 0 THEN st
        ELSE LET s == Step[n - 1]
             IN  setAttrs(s, elements,
                          <<<<key, ToggleValue(s.ents[elements[n]], key, force)>>>>)
  IN  BumpVersion(Step[Len(elements)])

\* toggleAttr over st = [ents, log, version]: one setAttrs call per element
toggleAttrs(st, elements, key, force) ==
  LET Step[n \in 0..Len(elements)] ==
        IF n = 0 THEN st
        ELSE LET s == Step[n - 1]
             IN  setAttrs(s, elements,
                          <<<<key, ToggleValue(s.ents[elements[n]], key, force)>>>>)
  IN  Step[Len(elements)]

----------------------------------------------------------------------------
(* QueryResult: the _data bag                                              *)

\* data(key) on the first element: _data first, then meta
getData_MetaFirst(entity, key) ==
  IF key \in MetaKeys /\ entity.meta[key] # Absent THEN entity.meta[key]
  ELSE IF entity._data.present /\ key \in DOMAIN entity._data.bag
  THEN entity._data.bag[key]
  ELSE JUndefined

getData(entity, key) ==
  IF entity._data.present /\ key \in DOMAIN entity._data.bag
  THEN entity._data.bag[key]
  ELSE IF key \in MetaKeys /\ entity.meta[key] # Absent THEN entity.meta[key]
  ELSE JUndefined

\* Object.assign(bag, dataToSet), dataToSet as its entries in order
RECURSIVE ObjectAssign(_, _)
ObjectAssign(bag, entries) ==
  IF Len(entries) = 0 THEN bag
  ELSE ObjectAssign([k \in DOMAIN bag \cup {entries[1][1]} |->
                       IF k = entries[1][1] THEN entries[1][2] ELSE bag[k]],
                    Tail(entries))

\* the SET mode of data() for one entity
setData(entity, dataToSet) ==
  [entity EXCEPT !._data = [present |-> TRUE, bag |-> ObjectAssign(@.bag, dataToSet)]]

----------------------------------------------------------------------------
(* QueryResult: markdown()                                                 *)

\* the TransformationResult object stored for a response: its markdown is
\* kept in s (model, tokens, timestamp and promptStyle are left out)
TransformationResult(markdown) == [JObj(3) EXCEPT !.s = markdown]

\* entity._data?.transformation
cachedTransformation(entity) ==
  IF entity._data.present /\ Key.transformation \in DOMAIN entity._data.bag
  THEN entity._data.bag[Key.transformation]
  ELSE JUndefined

\* cached.markdown
cachedMarkdown(cached) == IF cached.t = "object" THEN JStr(cached.s) ELSE JUndefined

\* entity.text || ''
textOrEmpty(entity) == OrElse(entity.text, JStr(<<>>))

\* a markdown() promise: the entity it is for (0 for none), whether it issued
\* a request and where that request stands, and how the promise settled
MarkdownPromise(entity, options, requested, state, value) ==
  [entity |-> entity, requested |-> requested, stage |-> IF state = "pending" THEN "fetch" ELSE "settled",
   state |-> state, value |-> value]

\* the catch block that lets the error out
caught_Rethrows(promise, entity) ==
  [promise EXCEPT !.stage = "settled", !.state = "rejected", !.value = JUndefined]

\* the catch block: return entity.text || ''
caught(promise, entity) ==
  [promise EXCEPT !.stage = "settled", !.state = "resolved", !.value = textOrEmpty(entity)]

\* the returns for a response that is not OK or holds no success
degraded(promise, entity) ==
  [promise EXCEPT !.stage = "settled", !.state = "resolved", !.value = textOrEmpty(entity)]

\* markdown(options) up to its first await
markdownCalled_NoCache(es, elements, options) ==
  IF first(elements) = 0
  THEN MarkdownPromise(0, options, FALSE, "resolved", JStr(<<>>))
  ELSE IF ~options.imageUrl
  THEN MarkdownPromise(first(elements), options, FALSE, "resolved",
                       textOrEmpty(es[first(elements)]))
  ELSE MarkdownPromise(first(elements), options, TRUE, "pending", JUndefined)

markdownCalled(es, elements, options) ==
  IF first(elements) = 0
  THEN MarkdownPromise(0, options, FALSE, "resolved", JStr(<<>>))
  ELSE IF ToBoolean(cachedTransformation(es[first(elements)])) /\ ~options.force
  THEN MarkdownPromise(first(elements), options, FALSE, "resolved",
                       cachedMarkdown(cachedTransformation(es[first(elements)])))
  ELSE IF ~options.imageUrl
  THEN MarkdownPromise(first(elements), options, FALSE, "resolved",
                       textOrEmpty(es[first(elements)]))
  ELSE MarkdownPromise(first(elements), options, TRUE, "pending", JUndefined)

\* entity._data.transformation = transformResult, creating the bag when absent
storeTransformation(entity, markdown) ==
  [entity EXCEPT !._data =
     [present |-> TRUE,
      bag |-> ObjectAssign(@.bag, <<<<Key.transformation, TransformationResult(markdown)>>>>)]]

----------------------------------------------------------------------------
(* Fetch helpers: fetchPage and fetchPages                                 *)

\* a join that waits for every request and resolves with the pages that came
promiseAll_AllSettled(call) ==
  IF call.state # "pending" THEN call
  ELSE IF \A i \in 1..Len(call.requests) : call.requests[i] \in {"fulfilled", "rejected"}
  THEN [call EXCEPT !.state = "resolved",
                    !.value = SelectSeq(call.pageNumbers,
                                        LAMBDA n : \E i \in 1..Len(call.requests) :
                                                     /\ call.pageNumbers[i] = n
                                                     /\ call.requests[i] = "fulfilled")]
  ELSE call

\* Promise.all over the fetchPage promises, and the return after the await:
\* rejected as soon as one of them is, resolved with the results in the
\* order of pageNumbers once all are fulfilled
promiseAll(call) ==
  IF call.state # "pending" THEN call
  ELSE IF \E i \in 1..Len(call.requests) : call.requests[i] = "rejected"
  THEN [call EXCEPT !.state = "rejected"]
  ELSE IF \A i \in 1..Len(call.requests) : call.requests[i] = "fulfilled"
  THEN [call EXCEPT !.state = "resolved", !.value = call.pageNumbers]
  ELSE call

\* pageNumbers.map(n => fetchPage(...)): every fetchPage runs up to its
\* await fetch(url) before the next one is called
fetchPagesCalled(pageNumbers) ==
  [called |-> TRUE, pageNumbers |-> pageNumbers,
   requests |-> [i \in 1..Len(pageNumbers) |-> "fetch"],
   state |-> "pending", value |-> <<>>]

\* fetchPage after await fetch(url): throws when the request failed or the
\* response is not OK
fetchPageFetched(outcome) == IF outcome = "ok" THEN "json" ELSE "rejected"

\* fetchPage after await response.json()
fetchPageParsed(parsed) == IF parsed THEN "fulfilled" ELSE "rejected"

----------------------------------------------------------------------------
(* Inputs                                                                  *)

NoStatus == JUndefined

SourceTable(id, page, ymin, confidence, status) ==
  [id |-> id, page_number |-> page, markdown |-> <<>>,
   bbox |-> [xmin |-> 5, ymin |-> ymin, xmax |-> 95, ymax |-> ymin + 30],
   confidence |-> confidence, verification_status |-> status]

SourceExtractedEntity(id, type, page, y, confidence, status) ==
  [id |-> id, type |-> type, title |-> <<"F", "i", "g">>, caption |-> <<>>, page |-> page,
   bbox |-> [x |-> 10, y |-> y, width |-> 50, height |-> 20],
   confidence |-> confidence, verification_status |-> status]

SourceOcr(id, page, y, confidence, status) ==
  [id |-> id, page |-> page, text |-> <<"T", "o", "t", "a", "l">>,
   bbox |-> [x |-> 0, y |-> y, width |-> 100, height |-> 5],
   confidence |-> confidence, verification_status |-> status]

id_t1 == <<"t", "1">>
id_f1 == <<"f", "1">>
id_o1 == <<"o", "1">>
id_n1 == <<"n", "1">>

SourceInput(tableStatus, figureStatus, ocrId) ==
  [tables |-> <<SourceTable(id_t1, 1, 50, JNum(95), tableStatus)>>,
   entities |-> <<>>,
   extractedEntities |-> <<SourceExtractedEntity(id_f1, Name.figure, 1, 10, JNum(90), figureStatus)>>,
   ocrBlocks |-> <<SourceOcr(ocrId, 2, 0, JNum(50), JStr(Name.pending))>>,
   markdownBlocks |-> <<>>,
   version |-> 1]

\* what the compiler has accumulated when compile() is called: a table and a
\* figure on page 1 (the figure above the table) and an OCR block on page 2;
\* in the last input the OCR block repeats the id of the table
SourceInputs ==
  {SourceInput(JStr(Key.verified), JStr(Name.flagged), id_o1),
   SourceInput(NoStatus, JStr(Key.verified), id_o1),
   SourceInput(NoStatus, NoStatus, id_t1)}

\* an extracted entity at the position (x, y) of page 1
SourcePositioned(id, x, y, confidence) ==
  [SourceExtractedEntity(id, Name.figure, 1, y, JNum(confidence), NoStatus)
     EXCEPT !.bbox.x = x]

\* the (x, y) positions of three figures on one page: each within the
\* tolerance of sortByPosition of the next with x falling or rising, all on
\* one row with two at the same place, and two rows further apart
PositionCases ==
  {<<<<50, 0>>, <<30, 1>>, <<10, 2>>>>,
   <<<<10, 0>>, <<20, 1>>, <<30, 2>>>>,
   <<<<30, 1>>, <<10, 0>>, <<30, 1>>>>,
   <<<<10, 5>>, <<30, 0>>, <<10, 1>>>>}

PositionInputs ==
  {[tables |-> <<>>,
    entities |-> <<>>,
    extractedEntities |-> <<SourcePositioned(id_f1, c[1][1], c[1][2], 50),
                            SourcePositioned(id_o1, c[2][1], c[2][2], 90),
                            SourcePositioned(id_n1, c[3][1], c[3][2], 70)>>,
    ocrBlocks |-> <<>>,
    markdownBlocks |-> <<>>,
    version |-> 1] : c \in PositionCases}

TreeNode(id, type, page, hasBbox, confidence) ==
  [id |-> id, type |-> type, page |-> page, hasBbox |-> hasBbox,
   textContent |-> <<"T", "o", "t", "a", "l">>,
   bbox |-> [x |-> 0, y |-> 10, width |-> 100, height |-> 5],
   confidence |-> confidence]

\* the pre-order of an inspector tree: document > page > (table, paragraph, figure)
TreeInputs ==
  {<<TreeNode(<<"d">>, Name.document, 1, FALSE, JUndefined),
     TreeNode(<<"p">>, Token.page, 1, TRUE, JUndefined),
     TreeNode(id_t1, Name.table, 1, TRUE, JNum(95)),
     TreeNode(id_o1, Name.paragraph, 2, TRUE, JUndefined),
     TreeNode(id_f1, Name.figure, 1, TRUE, JNum(50))>>}

Dot(name) == <<".">> \o name
AttrSel(key, op, value) == <<"[">> \o key \o op \o value \o <<"]">>

\* the arguments of the read operations
ReadSelectors == {Dot(Name.figure), AttrSel(Key.confidence, <<">">>, <<"0", ".", "6">>)}

ReadTexts == {<<"F", "i", "g">>, <<"f", "i", "g">>}

ReadNumbers == {1, 2}

ReadIds == {id_f1, id_t1}

SortKeys == {Key.pageIndex, Key.id}

\* the markdown of a table with a header row, a separator row and a data row
TableMarkdown ==
  <<"|", " ", "A", " ", "|", " ", "B", " ", "|", "\n",
    "|", "-", "-", "-", "|", "-", "-", "-", "|", "\n",
    "|", " ", "1", " ", "|", " ", "2", " ", "|">>

\* a row of three cells, the second blank, and a row of one cell
RaggedMarkdown ==
  <<"|", "x", "|", " ", "|", "1", "2", "%", "|", "\n",
    "|", "2", "0", "2", "4", "-", "1", "-", "2", "|">>

\* text that is no pipe table
ProseMarkdown == <<"n", "o", " ", "t", "a", "b", "l", "e">>

\* a header row and a data row whose cells are a lone comma, which the
\* currency pattern accepts and parseFloat does not, and a word
CommaMarkdown == <<"|", "h", "|", "k", "|", "\n", "|", ",", "|", "n", "/", "a", "|">>

id_t2 == <<"t", "2">>
id_t3 == <<"t", "3">>
id_t4 == <<"t", "4">>
id_e1 == <<"e", "1">>
id_o2 == <<"o", "2">>
id_m1 == <<"m", "1">>

\* a table with markdown
SourceTableOf(id, markdown, xmax) ==
  [id |-> id, page_number |-> 1, markdown |-> markdown,
   bbox |-> [xmin |-> 0, ymin |-> 0, xmax |-> xmax, ymax |-> 50],
   confidence |-> JNum(95), verification_status |-> NoStatus]

\* a field entity at the top of page 1
SourceEntityOf(id) ==
  [id |-> id, field_label |-> <<"T", "o", "t", "a", "l">>, page_number |-> 1,
   row_index |-> JUndefined, suggested_value |-> <<"$", "5">>,
   suggested_value_numeric |-> JNum(500),
   bounding_box |-> [x |-> 10, y |-> 0, width |-> 20, height |-> 5],
   confidence |-> JNum(80), verification_status |-> JStr(Name.pending),
   verified_value |-> JUndefined, was_corrected |-> JBool(FALSE),
   flag_reason |-> JUndefined]

SourceMarkdownOf(id, page) ==
  [id |-> id, page |-> page, content |-> <<"#", " ", "T">>, model |-> JUndefined,
   confidence |-> JUndefined, verification_status |-> NoStatus]

\* the items a run may add, by layer: four tables on page 1, a field entity
\* at the top of page 1, a figure on page 2, two OCR blocks at the height of
\* the data row of the first table, and a markdown block of page 2
CompileItems ==
  [tables |-> {SourceTableOf(id_t1, TableMarkdown, 100),
               SourceTableOf(id_t2, RaggedMarkdown, 23),
               SourceTableOf(id_t3, ProseMarkdown, 100),
               SourceTableOf(id_t4, CommaMarkdown, 100)},
   entities |-> {SourceEntityOf(id_e1)},
   extractedEntities |-> {SourceExtractedEntity(id_f1, Name.figure, 2, 25, JNum(90), NoStatus)},
   ocrBlocks |-> {SourceOcr(id_o1, 1, 25, JNum(50), JStr(Name.pending)),
                  SourceOcr(id_o2, 1, 25, JNum(60), JStr(Name.pending))},
   markdownBlocks |-> {SourceMarkdownOf(id_m1, 2)}]

\* the selectors of the data runs
DataSelectors == {<<"*">>, Dot(Name.figure)}

\* data(key) and data(key, value) calls: a value of undefined is a read
DataKeyValues ==
  {<<Key.note, JStr(Name.low)>>, <<Key.note, JUndefined>>,
   <<Key.confidence, JUndefined>>, <<Key.verified, JUndefined>>}

\* data(object) calls, as Object.entries of the object
DataObjects ==
  {<<<<Key.confidence, JUndefined>>, <<Key.note, JStr(Name.pending)>>>>}

\* the selectors of the markdown runs: the first element is the figure or
\* the table (whose text is empty), or there is none
MarkdownSelectors == {<<"*">>, Dot(Name.table), Dot(Name.signature)}

MarkdownOptions == [imageUrl : BOOLEAN, force : BOOLEAN]

\* the bodies of the responses to the transform request
ResponseBodies ==
  {[parsed |-> FALSE, success |-> FALSE, markdown |-> <<>>],
   [parsed |-> TRUE, success |-> FALSE, markdown |-> <<>>],
   [parsed |-> TRUE, success |-> TRUE, markdown |-> <<"|", "a", "|">>],
   [parsed |-> TRUE, success |-> TRUE, markdown |-> <<"|", "b", "|">>]}

\* the pageNumbers of the fetchPages calls
PageLists == {<<>>, <<1>>, <<2, 1>>, <<1, 2, 3>>}

\* the write of the frame runs and the data runs, which gives the receiver a
\* mutation log
ReadRunAttr == <<Key.highlight, JBool(TRUE)>>
OrSel(a, b) == a \o <<",", " ">> \o b

\* the comparison selectors [key op n]: the key, the operator, the literal and
\* the number the literal stands for (in hundredths)
CompareOps == {<<">">>, <<">", "=">>, <<"<">>, <<"<", "=">>}
CompareCases ==
  {[key |-> Key.confidence, op |-> op, lit |-> <<"0", ".", "9">>, n |-> 90] : op \in CompareOps}
  \cup {[key |-> Key.pageIndex, op |-> <<">", "=">>, lit |-> <<"1">>, n |-> 100],
        [key |-> Key.pageIndex, op |-> <<"<">>, lit |-> <<"1">>, n |-> 100]}
CompareSelector(c) == AttrSel(c.key, c.op, c.lit)
CompareSelectors == {CompareSelector(c) : c \in CompareCases}

\* selector branches in the grammar
Branches == {Dot(Name.table), Dot(Name.figure), <<":">> \o Token.last} \cup CompareSelectors

\* branches with a trailing index pseudo-class: the rest of the branch, the
\* pseudo-class, its argument as written and as a number (-1 without one)
IndexCases ==
  {[base |-> Dot(Name.table), type |-> Token.first, arg |-> <<>>, n |-> 0 - 1],
   [base |-> AttrSel(Key.confidence, <<"<", "=">>, <<"0", ".", "9">>),
    type |-> Token.last, arg |-> <<>>, n |-> 0 - 1],
   [base |-> AttrSel(Key.confidence, <<"<", "=">>, <<"0", ".", "9">>),
    type |-> Token.eq, arg |-> <<"1">>, n |-> 1],
   [base |-> AttrSel(Key.confidence, <<"<", "=">>, <<"0", ".", "9">>),
    type |-> Token.eq, arg |-> <<"2">>, n |-> 2],
   [base |-> AttrSel(Key.confidence, <<">", "=">>, <<"0", ".", "9">>),
    type |-> Token.gt, arg |-> <<"0">>, n |-> 0],
   [base |-> <<"*">>, type |-> Token.lt, arg |-> <<"2">>, n |-> 2],
   [base |-> <<"*">>, type |-> Token.even, arg |-> <<>>, n |-> 0 - 1],
   [base |-> AttrSel(Key.confidence, <<"<", "=">>, <<"0", ".", "9">>),
    type |-> Token.odd, arg |-> <<>>, n |-> 0 - 1]}

IndexSelector(c) ==
  c.base \o <<":">> \o c.type
  \o (IF c.arg = <<>> THEN <<>> ELSE <<"(">> \o c.arg \o <<")">>)

IndexSelectors == {IndexSelector(c) : c \in IndexCases}

\* the bare type name of the API reference
BareTypeSelectors == {Name.table}

\* branches with text outside the grammar
OddBranches ==
  {Dot(Name.table) \o <<" ", "@", "x">>,
   Dot(Name.table) \o <<":", "b", "o", "g", "u", "s">>,
   AttrSel(Key.confidence, <<"~">>, <<"0", ".", "9">>),
   <<"@">>}

\* the pairs A, B asked as 'A, B'
OrPairs ==
  {<<Dot(Name.table), Dot(Name.figure)>>,
   <<Dot(Name.table), AttrSel(Key.confidence, <<">", "=">>, <<"0", ".", "9">>)>>,
   <<AttrSel(Key.confidence, <<"<">>, <<"0", ".", "9">>), <<":">> \o Token.last>>,
   <<Dot(Name.table), <<":">> \o Token.last>>,
   <<<<"*">>, Dot(Name.figure)>>}

OrSelectors == {OrSel(pr[1], pr[2]) : pr \in OrPairs}

Selectors ==
  {<<"*">>} \cup Branches \cup BareTypeSelectors \cup OddBranches \cup OrSelectors
  \cup IndexSelectors

FilterSelectors ==
  BareTypeSelectors \cup OddBranches
  \cup {Dot(Name.table), AttrSel(Key.confidence, <<">">>, <<"0", ".", "9">>),
        AttrSel(Key.confidence, <<"<", "=">>, <<"0", ".", "9">>),
        AttrSel(Key.pageIndex, <<"<">>, <<"1">>)}

\* the selectors of the mutation runs
MutationSelectors == {<<"*">>, Dot(Name.table)}

\* attr(key, value) calls (a value of undefined is the GET form)
AttrKeyValues ==
  {<<Key.verified, JBool(TRUE)>>, <<Key.verified, JBool(FALSE)>>,
   <<Key.verificationStatus, JStr(Key.verified)>>,
   <<Key.verified, JUndefined>>}

\* attr(object) calls, as Object.entries of the object
AttrObjects ==
  {<<<<Key.verificationStatus, JStr(Name.flagged)>>, <<Key.flagReason, JStr(Name.low)>>>>}

\* the selectors of the engine runs
EngineSelectors == {<<"*">>, AttrSel(Key.confidence, <<">">>, <<"0", ".", "9">>)}

\* the attr(key, value) calls of the engine runs
QueryAttrKeyValues == {<<Key.confidence, JNum(100)>>}

RemoveKeys == {<<Key.verified>>, <<Key.text>>, <<Key.flagReason>>}

ToggleCalls == {<<Key.verified, JUndefined>>, <<Key.verified, JBool(TRUE)>>}

----------------------------------------------------------------------------
(* State                                                                   *)
(*  compiler the DocCompiler: the items added to its layers, its version  *)
(*  pure    a call of a function of the library: its arguments, its result *)
(*  ents    the entity objects; an entity reference is an index into ents  *)
(*  doc     the VirtualDoc: version and pages of entity references         *)
(*  engine  the closure of createQueryEngine: its captured allEntities     *)
(*  result  the QueryResult at hand: elements and mutationLog              *)
(*  derived what the last read operation on result returned: a new         *)
(*          QueryResult, or an entity reference (0 for undefined)          *)
(*  promises the asynchronous calls made: the markdown() calls and the     *)
(*          fetchPages() call, with their requests in flight               *)
(*  last    the last call made: its name and arguments, and the version    *)
(*          and log length it found                                        *)

Call(op, sel, attrs, ret) ==
  [op |-> op, sel |-> sel, attrs |-> attrs, ret |-> ret,
   version |-> doc.version, logLen |-> Len(result.mutationLog)]

\* the document object for compiled pages of entity records: the records
\* become the objects ents[1], ents[2], ... in page order
RefPages(pages) ==
  [i \in 1..Len(pages) |->
     [pageIndex |-> pages[i].pageIndex,
      entities |-> [j \in 1..Len(pages[i].entities) |->
                      Len(FlatMapEntities(SubSeq(pages, 1, i - 1))) + j]]]

\* no read operation has returned anything yet
NothingDerived ==
  [isQueryResult |-> FALSE, elements |-> <<>>, mutationLog |-> <<>>, entity |-> 0]

\* no function of the library has been called
NoCall == [fn |-> "", args |-> <<>>, called |-> FALSE, ret |-> <<>>]

\* a DocCompiler as its constructor leaves it
NewCompiler ==
  [tables |-> <<>>, entities |-> <<>>, extractedEntities |-> <<>>, ocrBlocks |-> <<>>,
   markdownBlocks |-> <<>>, version |-> 1]

\* no asynchronous call has been made yet
NoPromises ==
  [markdown |-> <<>>,
   fetchPages |-> [called |-> FALSE, pageNumbers |-> <<>>, requests |-> <<>>,
                   state |-> "pending", value |-> <<>>]]

InitFrom(compiled) ==
  /\ compiler = NewCompiler
  /\ pure = NoCall
  /\ ents = FlatMapEntities(compiled.pages)
  /\ doc = [version |-> compiled.version, pages |-> RefPages(compiled.pages), edits |-> 0,
            meta |-> compiled.meta]
  /\ engine = [created |-> FALSE, allEntities |-> <<>>, pagesThen |-> <<>>]
  /\ result = [elements |-> <<>>, mutationLog |-> <<>>]
  /\ derived = NothingDerived
  /\ promises = NoPromises
  /\ last = [op |-> "compile", sel |-> <<>>, attrs |-> <<>>, ret |-> JUndefined,
             version |-> 0, logLen |-> 0]

Init ==
  \/ \E src \in SourceInputs : InitFrom(compile(src))
  \/ \E tree \in TreeInputs : InitFrom(treeToVirtualDoc(tree))

----------------------------------------------------------------------------
(* Operations                                                              *)

createQueryEngine ==
  /\ engine' = [created |-> TRUE, allEntities |-> FlatMapEntities(doc.pages),
                pagesThen |-> doc.pages]
  /\ last' = Call("createQueryEngine", <<>>, <<>>, JUndefined)
  /\ UNCHANGED <<compiler, ents, doc, result, derived, promises, pure>>

\* an engine that flattens the pages when it is asked
query_Live(selector) ==
  /\ engine.created
  /\ result' = [elements |-> engineQuery(ents, FlatMapEntities(doc.pages), selector),
                mutationLog |-> <<>>]
  /\ last' = Call("query", selector, <<>>, JUndefined)
  /\ UNCHANGED <<compiler, ents, doc, engine, derived, promises, pure>>

\* $$(selector)
query(selector) ==
  /\ engine.created
  /\ result' = [elements |-> engineQuery(ents, engine.allEntities, selector),
                mutationLog |-> <<>>]
  /\ last' = Call("query", selector, <<>>, JUndefined)
  /\ UNCHANGED <<compiler, ents, doc, engine, derived, promises, pure>>

\* result = result.filter(selector) with a string selector: the caller goes
\* on with the QueryResult that filter returns
filter(selector) ==
  /\ Len(result.elements) > 0
  /\ result' = [elements |-> filtered(ents, result.elements, selector).out,
                mutationLog |-> <<>>]
  /\ last' = Call("filter", selector, <<>>, JUndefined)
  /\ UNCHANGED <<compiler, ents, doc, engine, derived, promises, pure>>

getAttr(key) ==
  IF Len(result.elements) = 0 THEN JUndefined
  ELSE getEntityValue(ents[result.elements[1]], key)

Mutated(st, op, attrs) ==
  /\ ents' = st.ents
  /\ doc' = [doc EXCEPT !.version = st.version]
  /\ result' = [result EXCEPT !.mutationLog = st.log]
  /\ last' = Call(op, <<>>, attrs, JUndefined)
  /\ UNCHANGED <<compiler, engine, derived, promises, pure>>

Current == [ents |-> ents, log |-> result.mutationLog, version |-> doc.version]

\* attr(key, value) and attr(object)
attr(form, attrs) ==
  /\ doc.version < MaxVersion
  /\ IF form = "kv" /\ attrs[1][2] = JUndefined
     THEN /\ last' = Call("attrGet", <<>>, attrs, getAttr(attrs[1][1]))
          /\ UNCHANGED <<compiler, ents, doc, engine, result, derived, promises, pure>>
     ELSE Mutated(setAttrs(Current, result.elements, attrs), "attr", attrs)

removeAttr(keys) ==
  /\ doc.version < MaxVersion
  /\ Mutated(removeAttrs(Current, result.elements, keys), "removeAttr",
             [i \in 1..Len(keys) |-> <<keys[i], JUndefined>>])

toggleAttr(key, force) ==
  /\ doc.version < MaxVersion
  /\ Mutated(toggleAttrs(Current, result.elements, key, force), "toggleAttr",
             <<<<key, force>>>>)

clearChanges ==
  /\ Len(result.mutationLog) > 0
  /\ result' = [result EXCEPT !.mutationLog = <<>>]
  /\ last' = Call("clearChanges", <<>>, <<>>, JUndefined)
  /\ UNCHANGED <<compiler, ents, doc, engine, derived, promises, pure>>

\* changes(), hasChanges() and getMutationLog() of a QueryResult (docId and
\* createdAt left out)
changes(queryResult) == queryResult.mutationLog

hasChanges(queryResult) == Len(queryResult.mutationLog) > 0

getMutationLog(queryResult) ==
  [docVersion |-> doc.version, changes |-> queryResult.mutationLog]

\* The owner of the document edits its structure: pages and entities are
\* plain arrays of the VirtualDoc.
NewEntity(pageIndex) ==
  extractedEntityToVirtual(
    SourceExtractedEntity(id_n1, Name.table, pageIndex + 1, 0, JNum(99), NoStatus), pageIndex)

docPushEntity(p) ==
  /\ doc.edits < MaxDocEdits /\ Len(ents) < MaxEntities
  /\ ents' = Append(ents, NewEntity(doc.pages[p].pageIndex))
  /\ doc' = [doc EXCEPT !.pages[p].entities = Append(@, Len(ents) + 1),
                        !.edits = @ + 1]
  /\ last' = Call("docPushEntity", <<>>, <<>>, JUndefined)
  /\ UNCHANGED <<compiler, engine, result, derived, promises, pure>>

docSpliceEntity(p, i) ==
  /\ doc.edits < MaxDocEdits
  /\ doc' = [doc EXCEPT !.pages[p].entities =
                          SubSeq(@, 1, i - 1) \o SubSeq(@, i + 1, Len(@)),
                        !.edits = @ + 1]
  /\ last' = Call("docSpliceEntity", <<>>, <<>>, JUndefined)
  /\ UNCHANGED <<compiler, ents, engine, result, derived, promises, pure>>

docPopPage ==
  /\ doc.edits < MaxDocEdits /\ Len(doc.pages) > 0
  /\ doc' = [doc EXCEPT !.pages = SubSeq(@, 1, Len(@) - 1), !.edits = @ + 1]
  /\ last' = Call("docPopPage", <<>>, <<>>, JUndefined)
  /\ UNCHANGED <<compiler, ents, engine, result, derived, promises, pure>>

docPushPage ==
  /\ doc.edits < MaxDocEdits /\ Len(ents) < MaxEntities
  /\ ents' = Append(ents, NewEntity(Len(doc.pages) + 5))
  /\ doc' = [doc EXCEPT !.pages = Append(@, [pageIndex |-> Len(doc.pages) + 5,
                                             entities |-> <<Len(ents) + 1>>]),
                        !.edits = @ + 1]
  /\ last' = Call("docPushPage", <<>>, <<>>, JUndefined)
  /\ UNCHANGED <<compiler, engine, result, derived, promises, pure>>

\* data(key), data(key, value) and data(object); form "kv" is a call with a
\* key and a value (undefined when left out), values holds the entries
data(form, values) ==
  IF form = "kv" /\ values[1][2] = JUndefined
  THEN /\ last' = Call("dataGet", values[1][1], values,
                       IF Len(result.elements) = 0 THEN JUndefined
                       ELSE getData(ents[result.elements[1]], values[1][1]))
       /\ UNCHANGED <<compiler, ents, doc, engine, result, derived, promises, pure>>
  ELSE /\ ents' = [ref \in DOMAIN ents |->
                     IF \E i \in 1..Len(result.elements) : result.elements[i] = ref
                     THEN setData(ents[ref], values)
                     ELSE ents[ref]]
       /\ last' = Call("data", <<>>, values, JUndefined)
       /\ UNCHANGED <<compiler, doc, engine, result, derived, promises, pure>>

\* Object.entries of the options of a markdown() call
OptionEntries(options) ==
  <<<<Key.imageUrl, JBool(options.imageUrl)>>, <<Key.force, JBool(options.force)>>>>

\* a markdown(options) call on the QueryResult at hand
markdown(options) ==
  /\ Len(promises.markdown) < MaxCalls
  /\ promises' = [promises EXCEPT !.markdown =
                    Append(@, markdownCalled(ents, result.elements, options))]
  /\ last' = Call("markdown", <<>>, OptionEntries(options), JUndefined)
  /\ UNCHANGED <<compiler, ents, doc, engine, result, derived, pure>>

\* await fetch(...) of the i-th markdown() call settles: the request failed,
\* or a response came that is OK or not
fetchSettled(i, outcome) ==
  /\ promises.markdown[i].stage = "fetch"
  /\ promises' = [promises EXCEPT !.markdown[i] =
                    CASE outcome = "error" -> caught(@, ents[@.entity])
                      [] outcome = "notOk" -> degraded(@, ents[@.entity])
                      [] outcome = "ok" -> [@ EXCEPT !.stage = "json"]]
  /\ last' = Call("fetchSettled", <<outcome>>, <<>>, JUndefined)
  /\ UNCHANGED <<compiler, ents, doc, engine, result, derived, pure>>

\* await response.json() of the i-th markdown() call settles: the body does
\* not parse, holds no success, or holds success and a markdown
jsonSettled(i, body) ==
  /\ promises.markdown[i].stage = "json"
  /\ IF body.parsed /\ body.success
     THEN /\ ents' = [ents EXCEPT ![promises.markdown[i].entity] =
                        storeTransformation(@, body.markdown)]
          /\ promises' = [promises EXCEPT !.markdown[i] =
                            [@ EXCEPT !.stage = "settled", !.state = "resolved",
                                      !.value = JStr(body.markdown)]]
     ELSE /\ promises' = [promises EXCEPT !.markdown[i] =
                            IF body.parsed THEN degraded(@, ents[@.entity])
                            ELSE caught(@, ents[@.entity])]
          /\ UNCHANGED ents
  /\ last' = Call("jsonSettled",
                  <<IF ~body.parsed THEN "unparsable"
                    ELSE IF body.success THEN "success" ELSE "noSuccess">>,
                  <<>>, JUndefined)
  /\ UNCHANGED <<compiler, doc, engine, result, derived, pure>>

\* fetchPages(jobId, pageNumbers)
fetchPages(pageNumbers) ==
  /\ ~promises.fetchPages.called
  /\ promises' = [promises EXCEPT !.fetchPages = promiseAll(fetchPagesCalled(pageNumbers))]
  /\ last' = Call("fetchPages", <<>>, <<>>, JUndefined)
  /\ UNCHANGED <<compiler, ents, doc, engine, result, derived, pure>>

\* await fetch(url) of the i-th fetchPage settles
pageFetchSettled(i, outcome) ==
  /\ promises.fetchPages.requests[i] = "fetch"
  /\ promises' = [promises EXCEPT !.fetchPages =
                    promiseAll([@ EXCEPT !.requests[i] = fetchPageFetched(outcome)])]
  /\ last' = Call("pageFetchSettled", <<outcome>>, <<>>, JUndefined)
  /\ UNCHANGED <<compiler, ents, doc, engine, result, derived, pure>>

\* await response.json() of the i-th fetchPage settles
pageJsonSettled(i, parsed) ==
  /\ promises.fetchPages.requests[i] = "json"
  /\ promises' = [promises EXCEPT !.fetchPages =
                    promiseAll([@ EXCEPT !.requests[i] = fetchPageParsed(parsed)])]
  /\ last' = Call("pageJsonSettled", <<IF parsed THEN "parsed" ELSE "unparsable">>,
                  <<>>, JUndefined)
  /\ UNCHANGED <<compiler, ents, doc, engine, result, derived, pure>>

\* addTables, addEntities, addExtractedEntities, addOcrBlocks and
\* addMarkdownBlocks with one item that was not added before
addItem(layer, item) ==
  /\ \A i \in 1..Len(compiler[layer]) : compiler[layer][i].id # item.id
  /\ compiler' = [compiler EXCEPT ![layer] = Append(@, item)]
  /\ last' = Call(layer, item.id, <<>>, JUndefined)
  /\ UNCHANGED <<ents, doc, engine, result, derived, promises, pure>>

\* addMarkdownPage(markdown, pageNumber) when Date.now() is now: a synthetic
\* table is added to the tables
addMarkdownPage(md, pageNumber, now) ==
  /\ \A i \in 1..Len(compiler.tables) :
       compiler.tables[i].id # Token.synthetic \o NatToString(pageNumber) \o <<"_">> \o NatToString(now)
  /\ compiler' = [compiler EXCEPT !.tables =
                    Append(@, [id |-> Token.synthetic \o NatToString(pageNumber) \o <<"_">>
                                        \o NatToString(now),
                               page_number |-> pageNumber, markdown |-> md,
                               bbox |-> [xmin |-> 0, ymin |-> 0, xmax |-> 100, ymax |-> 100],
                               confidence |-> JNum(100),
                               verification_status |-> JStr(Name.pending)])]
  /\ last' = Call("addMarkdownPage", md, <<>>, JUndefined)
  /\ UNCHANGED <<ents, doc, engine, result, derived, promises, pure>>

\* reset() that leaves the markdown blocks in place
reset_KeepsMarkdown ==
  /\ compiler.version <= MaxResets
  /\ compiler' = [NewCompiler EXCEPT !.markdownBlocks = compiler.markdownBlocks,
                                     !.version = compiler.version + 1]
  /\ last' = Call("reset", <<>>, <<>>, JUndefined)
  /\ UNCHANGED <<ents, doc, engine, result, derived, promises, pure>>

\* reset(): the layers are emptied, the version counter goes up
reset ==
  /\ compiler.version <= MaxResets
  /\ compiler' = [NewCompiler EXCEPT !.version = compiler.version + 1]
  /\ last' = Call("reset", <<>>, <<>>, JUndefined)
  /\ UNCHANGED <<ents, doc, engine, result, derived, promises, pure>>

\* compiler.compile(): it returns a document, or throws and returns none
DocCompiler_compile ==
  /\ IF compileThrows(compiler)
     THEN /\ last' = Call("compile", <<"throws">>, <<>>, JUndefined)
          /\ UNCHANGED <<ents, doc>>
     ELSE /\ LET Returned(compiled) ==
                    /\ ents' = FlatMapEntities(compiled.pages)
                    /\ doc' = [version |-> compiled.version,
                               pages |-> RefPages(compiled.pages), edits |-> 0,
                               meta |-> compiled.meta]
             IN  Returned(compile(compiler))
          /\ last' = Call("compile", <<"returns">>, <<>>, JUndefined)
  /\ UNCHANGED <<compiler, engine, result, derived, promises, pure>>

\* a read operation returned a new QueryResult over r.out
\* the mutant: the QueryResult a read operation returns takes over the log
Read_KeepsLog(op, arg, r) ==
  /\ result' = [result EXCEPT !.elements = r.self]
  /\ derived' = [isQueryResult |-> TRUE, elements |-> r.out,
                 mutationLog |-> result.mutationLog, entity |-> 0]
  /\ last' = Call(op, arg, <<>>, JUndefined)
  /\ UNCHANGED <<compiler, ents, doc, engine, promises, pure>>

Read(op, arg, r) ==
  /\ result' = [result EXCEPT !.elements = r.self]
  /\ derived' = [isQueryResult |-> TRUE, elements |-> r.out, mutationLog |-> <<>>,
                 entity |-> 0]
  /\ last' = Call(op, arg, <<>>, JUndefined)
  /\ UNCHANGED <<compiler, ents, doc, engine, promises, pure>>

\* first() and last() returned an element of the receiver, or undefined
ReadEntity(op, ref) ==
  /\ derived' = [isQueryResult |-> FALSE, elements |-> <<>>, mutationLog |-> <<>>,
                 entity |-> ref]
  /\ last' = Call(op, <<>>, <<>>, IF ref = 0 THEN JUndefined ELSE JObj(ref))
  /\ UNCHANGED <<compiler, ents, doc, engine, result, promises, pure>>

\* the caller goes on with the QueryResult the last read operation returned
continueWith ==
  /\ derived.isQueryResult
  /\ result' = [elements |-> derived.elements, mutationLog |-> derived.mutationLog]
  /\ derived' = NothingDerived
  /\ last' = Call("continueWith", <<>>, <<>>, JUndefined)
  /\ UNCHANGED <<compiler, ents, doc, engine, promises, pure>>

\* The caller holds both QueryResults, the receiver and the one the read
\* operation returned, and turns to the other one.
otherInstance ==
  /\ derived.isQueryResult
  /\ result' = [elements |-> derived.elements, mutationLog |-> derived.mutationLog]
  /\ derived' = [isQueryResult |-> TRUE, elements |-> result.elements,
                 mutationLog |-> result.mutationLog, entity |-> 0]
  /\ last' = Call("otherInstance", <<>>, <<>>, JUndefined)
  /\ UNCHANGED <<compiler, ents, doc, engine, promises, pure>>

\* mutation runs: a few selections, every mutation call
Next ==
  \/ createQueryEngine
  \/ \E selector \in MutationSelectors : query(selector)
  \/ \E kv \in AttrKeyValues : attr("kv", <<kv>>)
  \/ \E attrs \in AttrObjects : attr("object", attrs)
  \/ \E keys \in RemoveKeys : removeAttr(keys)
  \/ \E t \in ToggleCalls : toggleAttr(t[1], t[2])
  \/ clearChanges

Spec == Init /\ [][Next]_vars

\* selector runs: every selector of the model, asked of the engine and of filter
NextQ ==
  \/ createQueryEngine
  \/ \E selector \in Selectors : query(selector)
  \/ \E selector \in FilterSelectors : filter(selector)

SpecQ == Init /\ [][NextQ]_vars

\* engine runs: the document is edited and written to after the engine was made
NextE ==
  \/ createQueryEngine
  \/ \E selector \in EngineSelectors : query(selector)
  \/ \E kv \in QueryAttrKeyValues : attr("kv", <<kv>>)
  \/ \E p \in 1..Len(doc.pages) : docPushEntity(p)
  \/ \E p \in 1..Len(doc.pages) : \E i \in 1..Len(doc.pages[p].entities) : docSpliceEntity(p, i)
  \/ docPopPage
  \/ docPushPage

SpecE == Init /\ [][NextE]_vars

\* every read operation on the QueryResult at hand
ReadStep ==
  \/ \E selector \in ReadSelectors : Read("filter", selector, filtered(ents, result.elements, selector))
  \/ \E selector \in ReadSelectors : Read("not", selector, not(ents, result.elements, selector))
  \/ \E text \in ReadTexts : Read("contains", text, contains(ents, result.elements, text))
  \/ \E literal \in ReadTexts : Read("matches", literal, matches(ents, result.elements, literal))
  \/ \E n \in ReadNumbers : Read("onPage", NatToString(n), onPage(ents, result.elements, n))
  \/ \E id \in ReadIds : Read("inTable", id, inTable(ents, result.elements, id))
  \/ \E n \in ReadNumbers : Read("take", NatToString(n), take(result.elements, n))
  \/ \E n \in ReadNumbers : Read("skip", NatToString(n), skip(result.elements, n))
  \/ \E n \in ReadNumbers : Read("eq", NatToString(n), eq(result.elements, n))
  \/ \E id \in ReadIds : Read("byId", id, byId(ents, result.elements, id))
  \/ ReadEntity("first", first(result.elements))
  \/ ReadEntity("last", lastElement(result.elements))
  \/ \E key \in SortKeys : \E r \in sortBy(ents, result.elements, key) : Read("sortBy", key, r)
  \/ \E r \in sortByConfidence(ents, result.elements) : Read("sortByConfidence", <<>>, r)
  \/ \E r \in sortByPosition(ents, result.elements) : Read("sortByPosition", <<>>, r)

\* read runs: the read operations on the result of $$('*') and on the
\* results the read operations return
NextR ==
  \/ createQueryEngine
  \/ query(<<"*">>)
  \/ continueWith
  \/ ReadStep

\* frame runs: the read operations on the result of $$('*'), before and
\* after a write through it
NextP ==
  \/ createQueryEngine
  \/ query(<<"*">>)
  \/ attr("kv", <<ReadRunAttr>>)
  \/ ReadStep

\* compiler runs: items are added to the layers in any order, then compile()
NextC ==
  \/ /\ last.op # "compile"
     /\ \E layer \in DOMAIN CompileItems : \E item \in CompileItems[layer] : addItem(layer, item)
  \/ last.op # "compile" /\ DocCompiler_compile

\* the fixture of a financial report: six extracted entities, four of them
\* tables, and the same four tables with their markdown; numbers in hundredths
financialReportFixture ==
  [entities |->
    <<[id |-> <<"t", "a", "b", "l", "e", "-", "1", "-", "0">>,
      type |-> <<"t", "a", "b", "l", "e">>,
      title |-> <<"Q", "u", "a", "r", "t", "e", "r", "l", "y", " ", "F", "i", "n", "a", "n", "c",
                 "i", "a", "l", " ", "H", "i", "g", "h", "l", "i", "g", "h", "t", "s">>,
      page |-> 1, bbox |-> [x |-> 5, y |-> 15, width |-> 90, height |-> 35],
      caption |-> <<>>,
      confidence |-> JNum(98)],
     [id |-> <<"t", "a", "b", "l", "e", "-", "1", "-", "1">>,
      type |-> <<"t", "a", "b", "l", "e">>,
      title |-> <<"R", "e", "v", "e", "n", "u", "e", " ", "b", "y", " ", "S", "e", "g", "m", "e",
                 "n", "t">>,
      page |-> 1, bbox |-> [x |-> 5, y |-> 55, width |-> 90, height |-> 25],
      caption |-> <<>>,
      confidence |-> JNum(96)],
     [id |-> <<"f", "i", "g", "u", "r", "e", "-", "2", "-", "0">>,
      type |-> <<"f", "i", "g", "u", "r", "e">>,
      title |-> <<"R", "e", "v", "e", "n", "u", "e", " ", "G", "r", "o", "w", "t", "h", " ", "T",
                 "r", "e", "n", "d">>,
      page |-> 2, bbox |-> [x |-> 10, y |-> 20, width |-> 80, height |-> 40],
      caption |-> <<"Y", "e", "a", "r", "-", "o", "v", "e", "r", "-", "y", "e", "a", "r", " ", "r",
                   "e", "v", "e", "n", "u", "e", " ", "g", "r", "o", "w", "t", "h", " ", "b", "y",
                   " ", "q", "u", "a", "r", "t", "e", "r">>,
      confidence |-> JNum(92)],
     [id |-> <<"t", "a", "b", "l", "e", "-", "2", "-", "0">>,
      type |-> <<"t", "a", "b", "l", "e">>,
      title |-> <<"I", "n", "c", "o", "m", "e", " ", "S", "t", "a", "t", "e", "m", "e", "n", "t",
                 " ", "S", "u", "m", "m", "a", "r", "y">>,
      page |-> 2, bbox |-> [x |-> 5, y |-> 65, width |-> 90, height |-> 30],
      caption |-> <<>>,
      confidence |-> JNum(97)],
     [id |-> <<"f", "o", "o", "t", "n", "o", "t", "e", "-", "2", "-", "0">>,
      type |-> <<"f", "o", "o", "t", "n", "o", "t", "e">>,
      title |-> <<"(", "1", ")", " ", "N", "o", "n", "-", "G", "A", "A", "P", " ", "m", "e", "a",
                 "s", "u", "r", "e", "s", " ", "e", "x", "c", "l", "u", "d", "e", " ", "s", "t",
                 "o", "c", "k", "-", "b", "a", "s", "e", "d", " ", "c", "o", "m", "p", "e", "n",
                 "s", "a", "t", "i", "o", "n">>,
      page |-> 2, bbox |-> [x |-> 5, y |-> 96, width |-> 90, height |-> 3],
      caption |-> <<>>,
      confidence |-> JNum(89)],
     [id |-> <<"t", "a", "b", "l", "e", "-", "3", "-", "0">>,
      type |-> <<"t", "a", "b", "l", "e">>,
      title |-> <<"B", "a", "l", "a", "n", "c", "e", " ", "S", "h", "e", "e", "t", " ", "H", "i",
                 "g", "h", "l", "i", "g", "h", "t", "s">>,
      page |-> 3, bbox |-> [x |-> 5, y |-> 10, width |-> 90, height |-> 40],
      caption |-> <<>>,
      confidence |-> JNum(95)]>>,
   tables |->
    <<[id |-> <<"t", "a", "b", "l", "e", "-", "1", "-", "0">>, page_number |-> 1,
      markdown |-> <<"|", " ", "M", "e", "t", "r", "i", "c", " ", "|", " ", "Q", "3", " ", "2", "0", "2",
          "5", " ", "|", " ", "Q", "2", " ", "2", "0", "2", "5", " ", "|", " ", "Q", "3", " ",
          "2", "0", "2", "4", " ", "|", " ", "Q", "/", "Q", " ", "C", "h", "a", "n", "g", "e",
          " ", "|", " ", "Y", "/", "Y", " ", "C", "h", "a", "n", "g", "e", " ", "|", "\n", "|",
          "-", "-", "-", "|", "-", "-", "-", "|", "-", "-", "-", "|", "-", "-", "-", "|", "-",
          "-", "-", "|", "-", "-", "-", "|", "\n", "|", " ", "R", "e", "v", "e", "n", "u", "e",
          " ", "|", " ", "$", "1", "2", ",", "5", "0", "0", "M", " ", "|", " ", "$", "1", "1",
          ",", "2", "0", "0", "M", " ", "|", " ", "$", "9", ",", "8", "0", "0", "M", " ", "|",
          " ", "+", "1", "2", "%", " ", "|", " ", "+", "2", "8", "%", " ", "|", "\n", "|", " ",
          "G", "r", "o", "s", "s", " ", "M", "a", "r", "g", "i", "n", " ", "|", " ", "6", "8",
          ".", "5", "%", " ", "|", " ", "6", "7", ".", "2", "%", " ", "|", " ", "6", "5", ".",
          "8", "%", " ", "|", " ", "+", "1", ".", "3", " ", "p", "t", "s", " ", "|", " ", "+",
          "2", ".", "7", " ", "p", "t", "s", " ", "|", "\n", "|", " ", "O", "p", "e", "r", "a",
          "t", "i", "n", "g", " ", "I", "n", "c", "o", "m", "e", " ", "|", " ", "$", "4", ",",
          "2", "0", "0", "M", " ", "|", " ", "$", "3", ",", "6", "5", "0", "M", " ", "|", " ",
          "$", "2", ",", "9", "0", "0", "M", " ", "|", " ", "+", "1", "5", "%", " ", "|", " ",
          "+", "4", "5", "%", " ", "|", "\n", "|", " ", "N", "e", "t", " ", "I", "n", "c", "o",
          "m", "e", " ", "|", " ", "$", "3", ",", "1", "0", "0", "M", " ", "|", " ", "$", "2",
          ",", "7", "5", "0", "M", " ", "|", " ", "$", "2", ",", "2", "0", "0", "M", " ", "|",
          " ", "+", "1", "3", "%", " ", "|", " ", "+", "4", "1", "%", " ", "|", "\n", "|", " ",
          "D", "i", "l", "u", "t", "e", "d", " ", "E", "P", "S", " ", "|", " ", "$", "2", ".",
          "4", "5", " ", "|", " ", "$", "2", ".", "1", "8", " ", "|", " ", "$", "1", ".", "7",
          "4", " ", "|", " ", "+", "1", "2", "%", " ", "|", " ", "+", "4", "1", "%", " ", "|">>,
      bbox |-> [xmin |-> 5, ymin |-> 15, xmax |-> 95, ymax |-> 50],
      confidence |-> JNum(98), verification_status |-> JStr(Name.pending)],
     [id |-> <<"t", "a", "b", "l", "e", "-", "1", "-", "1">>, page_number |-> 1,
      markdown |-> <<"|", " ", "S", "e", "g", "m", "e", "n", "t", " ", "|", " ", "R", "e", "v", "e", "n",
          "u", "e", " ", "|", " ", "%", " ", "o", "f", " ", "T", "o", "t", "a", "l", " ", "|",
          "\n", "|", "-", "-", "-", "|", "-", "-", "-", "|", "-", "-", "-", "|", "\n", "|", " ",
          "C", "l", "o", "u", "d", " ", "S", "e", "r", "v", "i", "c", "e", "s", " ", "|", " ",
          "$", "7", ",", "5", "0", "0", "M", " ", "|", " ", "6", "0", "%", " ", "|", "\n", "|",
          " ", "E", "n", "t", "e", "r", "p", "r", "i", "s", "e", " ", "S", "o", "f", "t", "w",
          "a", "r", "e", " ", "|", " ", "$", "3", ",", "7", "5", "0", "M", " ", "|", " ", "3",
          "0", "%", " ", "|", "\n", "|", " ", "P", "r", "o", "f", "e", "s", "s", "i", "o", "n",
          "a", "l", " ", "S", "e", "r", "v", "i", "c", "e", "s", " ", "|", " ", "$", "1", ",",
          "2", "5", "0", "M", " ", "|", " ", "1", "0", "%", " ", "|">>,
      bbox |-> [xmin |-> 5, ymin |-> 55, xmax |-> 95, ymax |-> 80],
      confidence |-> JNum(96), verification_status |-> JStr(Name.pending)],
     [id |-> <<"t", "a", "b", "l", "e", "-", "2", "-", "0">>, page_number |-> 2,
      markdown |-> <<"|", " ", "L", "i", "n", "e", " ", "I", "t", "e", "m", " ", "|", " ", "Q", "3", " ",
          "2", "0", "2", "5", " ", "|", " ", "Q", "3", " ", "2", "0", "2", "4", " ", "|", "\n",
          "|", "-", "-", "-", "|", "-", "-", "-", "|", "-", "-", "-", "|", "\n", "|", " ", "R",
          "e", "v", "e", "n", "u", "e", " ", "|", " ", "$", "1", "2", ",", "5", "0", "0", "M",
          " ", "|", " ", "$", "9", ",", "8", "0", "0", "M", " ", "|", "\n", "|", " ", "C", "o",
          "s", "t", " ", "o", "f", " ", "R", "e", "v", "e", "n", "u", "e", " ", "|", " ", "$",
          "3", ",", "9", "3", "8", "M", " ", "|", " ", "$", "3", ",", "3", "5", "2", "M", " ",
          "|", "\n", "|", " ", "G", "r", "o", "s", "s", " ", "P", "r", "o", "f", "i", "t", " ",
          "|", " ", "$", "8", ",", "5", "6", "2", "M", " ", "|", " ", "$", "6", ",", "4", "4",
          "8", "M", " ", "|", "\n", "|", " ", "R", "&", "D", " ", "E", "x", "p", "e", "n", "s",
          "e", "s", " ", "|", " ", "$", "2", ",", "1", "0", "0", "M", " ", "|", " ", "$", "1",
          ",", "7", "5", "0", "M", " ", "|", "\n", "|", " ", "S", "&", "M", " ", "E", "x", "p",
          "e", "n", "s", "e", "s", " ", "|", " ", "$", "1", ",", "5", "0", "0", "M", " ", "|",
          " ", "$", "1", ",", "2", "0", "0", "M", " ", "|", "\n", "|", " ", "G", "&", "A", " ",
          "E", "x", "p", "e", "n", "s", "e", "s", " ", "|", " ", "$", "7", "6", "2", "M", " ",
          "|", " ", "$", "5", "9", "8", "M", " ", "|", "\n", "|", " ", "O", "p", "e", "r", "a",
          "t", "i", "n", "g", " ", "I", "n", "c", "o", "m", "e", " ", "|", " ", "$", "4", ",",
          "2", "0", "0", "M", " ", "|", " ", "$", "2", ",", "9", "0", "0", "M", " ", "|">>,
      bbox |-> [xmin |-> 5, ymin |-> 65, xmax |-> 95, ymax |-> 95],
      confidence |-> JNum(97), verification_status |-> JStr(Name.pending)],
     [id |-> <<"t", "a", "b", "l", "e", "-", "3", "-", "0">>, page_number |-> 3,
      markdown |-> <<"|", " ", "I", "t", "e", "m", " ", "|", " ", "S", "e", "p", " ", "3", "0", ",", " ",
          "2", "0", "2", "5", " ", "|", " ", "D", "e", "c", " ", "3", "1", ",", " ", "2", "0",
          "2", "4", " ", "|", "\n", "|", "-", "-", "-", "|", "-", "-", "-", "|", "-", "-", "-",
          "|", "\n", "|", " ", "C", "a", "s", "h", " ", "&", " ", "E", "q", "u", "i", "v", "a",
          "l", "e", "n", "t", "s", " ", "|", " ", "$", "8", ",", "2", "0", "0", "M", " ", "|",
          " ", "$", "6", ",", "5", "0", "0", "M", " ", "|", "\n", "|", " ", "A", "c", "c", "o",
          "u", "n", "t", "s", " ", "R", "e", "c", "e", "i", "v", "a", "b", "l", "e", " ", "|",
          " ", "$", "2", ",", "8", "0", "0", "M", " ", "|", " ", "$", "2", ",", "1", "0", "0",
          "M", " ", "|", "\n", "|", " ", "T", "o", "t", "a", "l", " ", "A", "s", "s", "e", "t",
          "s", " ", "|", " ", "$", "4", "5", ",", "0", "0", "0", "M", " ", "|", " ", "$", "3",
          "8", ",", "0", "0", "0", "M", " ", "|", "\n", "|", " ", "T", "o", "t", "a", "l", " ",
          "D", "e", "b", "t", " ", "|", " ", "$", "5", ",", "5", "0", "0", "M", " ", "|", " ",
          "$", "6", ",", "0", "0", "0", "M", " ", "|", "\n", "|", " ", "S", "h", "a", "r", "e",
          "h", "o", "l", "d", "e", "r", "s", "'", " ", "E", "q", "u", "i", "t", "y", " ", "|",
          " ", "$", "2", "8", ",", "0", "0", "0", "M", " ", "|", " ", "$", "2", "2", ",", "5",
          "0", "0", "M", " ", "|">>,
      bbox |-> [xmin |-> 5, ymin |-> 10, xmax |-> 95, ymax |-> 50],
      confidence |-> JNum(95), verification_status |-> JStr(Name.pending)]>>,
   fieldEntities |-> <<>>]

\* the fixture of an invoice; its field entities leave out the optional fields
invoiceFixture ==
  [entities |->
    <<[id |-> <<"t", "a", "b", "l", "e", "-", "1", "-", "0">>,
      type |-> <<"t", "a", "b", "l", "e">>,
      title |-> <<"L", "i", "n", "e", " ", "I", "t", "e", "m", "s">>,
      page |-> 1, bbox |-> [x |-> 5, y |-> 35, width |-> 90, height |-> 35],
      caption |-> <<>>,
      confidence |-> JNum(96)]>>,
   tables |->
    <<[id |-> <<"t", "a", "b", "l", "e", "-", "1", "-", "0">>, page_number |-> 1,
      markdown |-> <<"|", " ", "I", "t", "e", "m", " ", "|", " ", "D", "e", "s", "c", "r", "i", "p", "t",
          "i", "o", "n", " ", "|", " ", "Q", "t", "y", " ", "|", " ", "U", "n", "i", "t", " ",
          "P", "r", "i", "c", "e", " ", "|", " ", "A", "m", "o", "u", "n", "t", " ", "|", "\n",
          "|", "-", "-", "-", "|", "-", "-", "-", "|", "-", "-", "-", "|", "-", "-", "-", "|",
          "-", "-", "-", "|", "\n", "|", " ", "P", "D", "F", "-", "0", "0", "1", " ", "|", " ",
          "D", "o", "c", "u", "m", "e", "n", "t", " ", "P", "r", "o", "c", "e", "s", "s", "i",
          "n", "g", " ", "A", "P", "I", " ", "-", " ", "S", "t", "a", "n", "d", "a", "r", "d",
          " ", "|", " ", "1", ",", "0", "0", "0", " ", "|", " ", "$", "0", ".", "0", "5", " ",
          "|", " ", "$", "5", "0", ".", "0", "0", " ", "|", "\n", "|", " ", "P", "D", "F", "-",
          "0", "0", "2", " ", "|", " ", "T", "a", "b", "l", "e", " ", "E", "x", "t", "r", "a",
          "c", "t", "i", "o", "n", " ", "A", "d", "d", "-", "o", "n", " ", "|", " ", "5", "0",
          "0", " ", "|", " ", "$", "0", ".", "0", "8", " ", "|", " ", "$", "4", "0", ".", "0",
          "0", " ", "|", "\n", "|", " ", "P", "D", "F", "-", "0", "0", "3", " ", "|", " ", "P",
          "r", "i", "o", "r", "i", "t", "y", " ", "S", "u", "p", "p", "o", "r", "t", " ", "(",
          "M", "o", "n", "t", "h", "l", "y", ")", " ", "|", " ", "1", " ", "|", " ", "$", "9",
          "9", ".", "0", "0", " ", "|", " ", "$", "9", "9", ".", "0", "0", " ", "|", "\n", "|",
          " ", "|", " ", "|", " ", "|", " ", "S", "u", "b", "t", "o", "t", "a", "l", " ", "|",
          " ", "$", "1", "8", "9", ".", "0", "0", " ", "|", "\n", "|", " ", "|", " ", "|", " ",
          "|", " ", "T", "a", "x", " ", "(", "8", ".", "5", "%", ")", " ", "|", " ", "$", "1",
          "6", ".", "0", "7", " ", "|", "\n", "|", " ", "|", " ", "|", " ", "|", " ", "*", "*",
          "T", "o", "t", "a", "l", "*", "*", " ", "|", " ", "*", "*", "$", "2", "0", "5", ".",
          "0", "7", "*", "*", " ", "|">>,
      bbox |-> [xmin |-> 5, ymin |-> 35, xmax |-> 95, ymax |-> 70],
      confidence |-> JNum(96), verification_status |-> JStr(Name.pending)]>>,
   fieldEntities |->
    <<[id |-> <<"f", "i", "e", "l", "d", "-", "i", "n", "v", "o", "i", "c", "e", "-", "n", "u", "m", "b", "e", "r">>,
      page_number |-> 1,
      field_label |-> <<"I", "n", "v", "o", "i", "c", "e", " ", "N", "u", "m", "b", "e", "r">>,
      suggested_value |-> <<"I", "N", "V", "-", "2", "0", "2", "5", "-", "0", "0", "4", "2">>,
      suggested_value_numeric |-> JUndefined, confidence |-> JNum(99),
      bounding_box |-> [x |-> 70, y |-> 10, width |-> 20, height |-> 3],
      verification_status |-> JStr(Name.pending), row_index |-> JUndefined,
      verified_value |-> JUndefined, was_corrected |-> JUndefined, flag_reason |-> JUndefined],
     [id |-> <<"f", "i", "e", "l", "d", "-", "i", "n", "v", "o", "i", "c", "e", "-", "d", "a", "t", "e">>,
      page_number |-> 1,
      field_label |-> <<"I", "n", "v", "o", "i", "c", "e", " ", "D", "a", "t", "e">>,
      suggested_value |-> <<"2", "0", "2", "5", "-", "0", "1", "-", "1", "5">>,
      suggested_value_numeric |-> JUndefined, confidence |-> JNum(98),
      bounding_box |-> [x |-> 70, y |-> 14, width |-> 20, height |-> 3],
      verification_status |-> JStr(Name.pending), row_index |-> JUndefined,
      verified_value |-> JUndefined, was_corrected |-> JUndefined, flag_reason |-> JUndefined],
     [id |-> <<"f", "i", "e", "l", "d", "-", "d", "u", "e", "-", "d", "a", "t", "e">>,
      page_number |-> 1,
      field_label |-> <<"D", "u", "e", " ", "D", "a", "t", "e">>,
      suggested_value |-> <<"2", "0", "2", "5", "-", "0", "2", "-", "1", "4">>,
      suggested_value_numeric |-> JUndefined, confidence |-> JNum(97),
      bounding_box |-> [x |-> 70, y |-> 18, width |-> 20, height |-> 3],
      verification_status |-> JStr(Name.pending), row_index |-> JUndefined,
      verified_value |-> JUndefined, was_corrected |-> JUndefined, flag_reason |-> JUndefined],
     [id |-> <<"f", "i", "e", "l", "d", "-", "t", "o", "t", "a", "l">>,
      page_number |-> 1,
      field_label |-> <<"T", "o", "t", "a", "l">>,
      suggested_value |-> <<"$", "2", "0", "5", ".", "0", "7">>,
      suggested_value_numeric |-> JNum(20507), confidence |-> JNum(98),
      bounding_box |-> [x |-> 75, y |-> 68, width |-> 15, height |-> 3],
      verification_status |-> JStr(Name.pending), row_index |-> JUndefined,
      verified_value |-> JUndefined, was_corrected |-> JUndefined, flag_reason |-> JUndefined]>>]

\* the embedded fixtures by name
fixtures ==
  [name \in {"financial-report", "invoice"} |->
     IF name = "financial-report" THEN financialReportFixture ELSE invoiceFixture]

\* the compiler of loadFixture after its add calls: the tables, the field
\* entities and the extracted entities mapped from the entities of the fixture
FixtureCompiler(fixture) ==
  [NewCompiler EXCEPT
     !.tables = fixture.tables,
     !.entities = fixture.fieldEntities,
     !.extractedEntities =
        [i \in 1..Len(fixture.entities) |->
           [id |-> fixture.entities[i].id, type |-> fixture.entities[i].type,
            title |-> fixture.entities[i].title, page |-> fixture.entities[i].page,
            bbox |-> fixture.entities[i].bbox, caption |-> fixture.entities[i].caption,
            confidence |-> fixture.entities[i].confidence,
            verification_status |-> JUndefined]]]

\* loadFixture(name)
loadFixture(name) == compile(FixtureCompiler(fixtures[name]))

\* the selectors of the fixture runs
FixtureSelectors ==
  {<<"*">>, Dot(Name.table), Dot(Name.figure), Dot(Name.footnote), Dot(Name.currency),
   Dot(Name.header), Dot(Name.date)}

\* fixture runs: queries and read operations on a loaded fixture
NextX ==
  \/ createQueryEngine
  \/ \E selector \in FixtureSelectors : query(selector)
  \/ \E selector \in FixtureSelectors : filter(selector)
  \/ \E n \in 1..3 : Read("onPage", NatToString(n), onPage(ents, result.elements, n))
  \/ continueWith

\* the document of loadFixture(name); compiler is the compiler it used
InitX ==
  \E name \in DOMAIN fixtures :
    /\ compiler = FixtureCompiler(fixtures[name])
    /\ pure = NoCall
    /\ LET Loaded(compiled) ==
             /\ ents = FlatMapEntities(compiled.pages)
             /\ doc = [version |-> compiled.version, pages |-> RefPages(compiled.pages),
                       edits |-> 0, meta |-> compiled.meta]
       IN  Loaded(loadFixture(name))
    /\ engine = [created |-> FALSE, allEntities |-> <<>>, pagesThen |-> <<>>]
    /\ result = [elements |-> <<>>, mutationLog |-> <<>>]
    /\ derived = NothingDerived
    /\ promises = NoPromises
    /\ last = [op |-> "loadFixture", sel |-> <<>>, attrs |-> <<>>, ret |-> JUndefined,
               version |-> 0, logLen |-> 0]

SpecX == InitX /\ [][NextX]_vars

\* the items a run that uses its compiler again may add
ReuseItems ==
  [tables |-> {SourceTableOf(id_t3, ProseMarkdown, 100)},
   markdownBlocks |-> {SourceMarkdownOf(id_m1, 2)}]

\* what Date.now() returns in a run
Timestamps == {5}

\* runs that use one compiler again and again: add, reset and compile in any order
NextK ==
  \/ \E layer \in DOMAIN ReuseItems : \E item \in ReuseItems[layer] : addItem(layer, item)
  \/ \E now \in Timestamps : addMarkdownPage(ProseMarkdown, 2, now)
  \/ reset
  \/ DocCompiler_compile

\* a new DocCompiler and no document yet
InitC ==
  /\ compiler = NewCompiler
  /\ pure = NoCall
  /\ ents = <<>>
  /\ doc = [version |-> 0, pages |-> <<>>, edits |-> 0, meta |-> documentMeta(<<>>)]
  /\ engine = [created |-> FALSE, allEntities |-> <<>>, pagesThen |-> <<>>]
  /\ result = [elements |-> <<>>, mutationLog |-> <<>>]
  /\ derived = NothingDerived
  /\ promises = NoPromises
  /\ last = [op |-> "DocCompiler", sel |-> <<>>, attrs |-> <<>>, ret |-> JUndefined,
             version |-> 0, logLen |-> 0]

SpecC == InitC /\ [][NextC]_vars

SpecK == InitC /\ [][NextK]_vars

\* a compiled document: a figure and a table on page 1, an OCR block on page 2
InitM == InitFrom(compile(SourceInput(NoStatus, NoStatus, id_o1)))

\* attr(key, value) calls of the routing runs: a key of the allow-list, a
\* custom key, a custom key that is the name of a top-level field, and the
\* three mutable top-level fields
RoutingKeyValues ==
  {<<Key.highlight, JBool(TRUE)>>, <<Key.note, JStr(Name.low)>>, <<Key.id, JStr(Name.low)>>,
   <<Key.text, JStr(Name.low)>>, <<Key.value, JNum(500)>>, <<Key.type, JStr(Name.figure)>>}

RoutingRemoveKeys == {<<Key.id>>, <<Key.text>>, <<Key.note>>}

RoutingToggleCalls == {<<Key.id, JUndefined>>, <<Key.highlight, JUndefined>>}

\* routing runs: writes, removals and toggles of keys of every kind through
\* the result of one query
NextA ==
  \/ createQueryEngine
  \/ \E selector \in MutationSelectors : query(selector)
  \/ \E kv \in RoutingKeyValues : attr("kv", <<kv>>)
  \/ \E keys \in RoutingRemoveKeys : removeAttr(keys)
  \/ \E t \in RoutingToggleCalls : toggleAttr(t[1], t[2])

SpecA == InitM /\ [][NextA]_vars

\* the writes of the log runs
LogKeyValues == {<<Key.verified, JBool(TRUE)>>, <<Key.verified, JBool(FALSE)>>}

\* log runs: two QueryResults over the same entities, the result of a query
\* and the result of a filter on it, written through in turn
NextL ==
  \/ createQueryEngine
  \/ query(<<"*">>)
  \/ \E selector \in MutationSelectors :
       Read("filter", selector, filtered(ents, result.elements, selector))
  \/ otherInstance
  \/ \E kv \in LogKeyValues : attr("kv", <<kv>>)
  \/ removeAttr(<<Key.flagReason>>)
  \/ removeAttr(<<Key.text>>)
  \/ toggleAttr(Key.highlight, JUndefined)
  \/ clearChanges

SpecL == InitM /\ [][NextL]_vars

\* attr(key, value) calls of the read-back runs: the keys of the routing
\* runs and the key '__proto__', and the GET form for each key
ReadBackKeyValues ==
  RoutingKeyValues
    \cup {<<Key.proto, JStr(Name.low)>>, <<Key.proto, JBool(TRUE)>>}
    \cup {<<kv[1], JUndefined>> : kv \in RoutingKeyValues \cup {<<Key.proto, JUndefined>>}}

\* read-back runs: attr(key, value) and attr(key) through the result of a
\* query
NextW ==
  \/ createQueryEngine
  \/ \E selector \in MutationSelectors : query(selector)
  \/ \E kv \in ReadBackKeyValues : attr("kv", <<kv>>)

SpecW == InitM /\ [][NextW]_vars

\* fetch runs: one fetchPages call and the settling of its requests, in any
\* order
NextF ==
  \/ \E pageNumbers \in PageLists : fetchPages(pageNumbers)
  \/ \E i \in 1..Len(promises.fetchPages.requests) :
       \E outcome \in {"error", "notOk", "ok"} : pageFetchSettled(i, outcome)
  \/ \E i \in 1..Len(promises.fetchPages.requests) :
       \E parsed \in BOOLEAN : pageJsonSettled(i, parsed)

SpecF == Init /\ [][NextF]_vars

InitR ==
  \/ \E src \in PositionInputs : InitFrom(compile(src))
  \/ InitM

SpecR == InitR /\ [][NextR]_vars

SpecP == InitR /\ [][NextP]_vars

\* data runs: data() in its three forms, and a tracked write
NextD ==
  \/ createQueryEngine
  \/ \E selector \in DataSelectors : query(selector)
  \/ \E kv \in DataKeyValues : data("kv", <<kv>>)
  \/ \E values \in DataObjects : data("object", values)
  \/ attr("kv", <<ReadRunAttr>>)

SpecD == Init /\ [][NextD]_vars

\* markdown runs: markdown() calls and the settling of their requests, in
\* any order
NextM ==
  \/ createQueryEngine
  \/ \E selector \in MarkdownSelectors : query(selector)
  \/ \E options \in MarkdownOptions : markdown(options)
  \/ \E i \in 1..Len(promises.markdown) :
       \E outcome \in {"error", "notOk", "ok"} : fetchSettled(i, outcome)
  \/ \E i \in 1..Len(promises.markdown) :
       \E body \in ResponseBodies : jsonSettled(i, body)

SpecM == InitM /\ [][NextM]_vars

----------------------------------------------------------------------------
(* Claims about the tracked mutations (checked under Spec)                 *)

ElementSet == {result.elements[i] : i \in 1..Len(result.elements)}

SetCall(l) == l.op = "attr"

\* C1: a set-mode attr() call increments doc.version by exactly 1 if the call
\* changed at least one field of at least one entity, and leaves doc.version
\* unchanged if the call changed no field.
C1_VersionPerCall ==
  [][SetCall(last') =>
       doc'.version = doc.version + (IF ents' # ents THEN 1 ELSE 0)]_vars

\* the records the claim C2 expects of attr(key, value): one per element whose
\* prior value differs from the value, in element order
ExpectedChanges(es, elements, key, value) ==
  LET F[i \in 0..Len(elements)] ==
        IF i = Len(elements) THEN <<>>
        ELSE LET e == es[elements[i + 1]]
                 prior == getEntityValue(e, key)
             IN  (IF prior = value THEN <<>>
                  ELSE <<[entityId |-> e.id, pageIndex |-> e.pageIndex, field |-> key,
                          oldValue |-> prior, newValue |-> value]>>) \o F[i + 1]
  IN  F[0]

\* C2: after attr(key, value) on a QueryResult whose mutation log was empty,
\* changes() holds exactly one EntityChange for each entity whose prior value
\* for key differed from value (entity id, pageIndex, key, old and new value),
\* in element order, and none for an entity whose prior value equalled value.
C2_ChangesPerEntity ==
  [][(SetCall(last') /\ Len(last'.attrs) = 1 /\ result.mutationLog = <<>>) =>
       result'.mutationLog =
         ExpectedChanges(ents, result.elements, last'.attrs[1][1], last'.attrs[1][2])]_vars

\* an attr(key, value) call on an empty log changed some of the elements and
\* skipped another whose value was already the new one
C2_Witness ==
  /\ SetCall(last) /\ Len(last.attrs) = 1 /\ last.logLen = 0
  /\ Len(result.mutationLog) > 0
  /\ Len(result.mutationLog) < Len(result.elements)
  /\ \A i \in 1..Len(result.mutationLog) :
       result.mutationLog[i].oldValue # last.attrs[1][2]

\* C3: toggleAttr(key) without force leaves each entity of the result with the
\* boolean negation of the truthiness that entity had for key before the call.
C3_TogglePerEntity ==
  [][(last'.op = "toggleAttr" /\ last'.attrs[1][2] = JUndefined) =>
       \A ref \in ElementSet :
         getEntityValue(ents'[ref], last'.attrs[1][1]) =
           JBool(~ToBoolean(getEntityValue(ents[ref], last'.attrs[1][1])))]_vars

\* the records the claim C4 expects of removeAttr(key): one per element that
\* had a value, with undefined as the new value
ExpectedRemovals(es, elements, key) ==
  LET F[i \in 0..Len(elements)] ==
        IF i = Len(elements) THEN <<>>
        ELSE LET e == es[elements[i + 1]]
                 prior == getEntityValue(e, key)
             IN  (IF prior = JUndefined THEN <<>>
                  ELSE <<[entityId |-> e.id, pageIndex |-> e.pageIndex, field |-> key,
                          oldValue |-> prior, newValue |-> JUndefined]>>) \o F[i + 1]
  IN  F[0]

\* C4: removeAttr(key) leaves the key absent on every entity of the result
\* that had a value for it (the key then resolves to undefined) and logs
\* exactly one EntityChange for it, with the prior value and undefined;
\* entities without a value are left untouched and produce no record.
C4_RemoveAttr ==
  [][last'.op = "removeAttr" =>
       LET key == last'.attrs[1][1] IN
       /\ \A ref \in ElementSet :
            IF getEntityValue(ents[ref], key) # JUndefined
            THEN getEntityValue(ents'[ref], key) = JUndefined
            ELSE ents'[ref] = ents[ref]
       /\ result'.mutationLog =
            result.mutationLog \o ExpectedRemovals(ents, result.elements, key)]_vars

\* the version of a document as compile() of a fresh compiler and
\* treeToVirtualDoc() return it
CompiledVersion == 1

VerifiedAgrees(entity) ==
  (entity.meta[Key.verified] = JBool(TRUE)) <=> (entity.meta[Key.verificationStatus] = JStr(Key.verified))

\* C5 as stated: in every document state reachable by compile() or
\* treeToVirtualDoc() followed by attr, removeAttr and toggleAttr calls, each
\* entity's meta.verified is true exactly when its verificationStatus is
\* 'verified'.
C5_VerifiedAgreesAlways == \A i \in 1..Len(ents) : VerifiedAgrees(ents[i])

\* C5 as amended: the two fields agree in the document as compiled, for as
\* long as no mutation call has changed a field (doc.version is unchanged).
C5_VerifiedAgreesAsCompiled ==
  doc.version = CompiledVersion => \A i \in 1..Len(ents) : VerifiedAgrees(ents[i])

\* a compiled document with a verified entity, on which a mutation call was
\* made that changed nothing
C5_Witness ==
  /\ doc.version = CompiledVersion
  /\ last.op \in {"attr", "toggleAttr", "removeAttr"}
  /\ Len(result.elements) > 0
  /\ \E i \in 1..Len(ents) : ents[i].meta[Key.verified] = JBool(TRUE)
  /\ \E i \in 1..Len(ents) : ents[i].meta[Key.verified] = JBool(FALSE)

----------------------------------------------------------------------------
(* Claims about selectors (checked under SpecQ)                            *)

SeqSet(s) == {s[i] : i \in 1..Len(s)}

IdsOf(es, refs) == {es[refs[i]].id : i \in 1..Len(refs)}

\* C6: the engine query 'A, B' returns the id-deduplicated union of the query
\* A and the query B: every entity id returned by either branch query is
\* present, no id appears twice, and every entity returned is returned by
\* one of the two branch queries.
C6_OrIsUnion ==
  \A pr \in OrPairs :
    (last.op = "query" /\ last.sel = OrSel(pr[1], pr[2])) =>
      LET a == engineQuery(ents, engine.allEntities, pr[1])
          b == engineQuery(ents, engine.allEntities, pr[2])
          r == result.elements
      IN  /\ IdsOf(ents, r) = IdsOf(ents, a) \cup IdsOf(ents, b)
          /\ \A i, j \in 1..Len(r) : i # j => ents[r[i]].id # ents[r[j]].id
          /\ SeqSet(r) \subseteq SeqSet(a) \cup SeqSet(b)

\* the query '.table, [confidence>=0.9]' returned entities of both branches,
\* the table matching both and returned once
C6_Witness ==
  /\ last.op = "query"
  /\ last.sel = OrSel(Dot(Name.table), AttrSel(Key.confidence, <<">", "=">>, <<"0", ".", "9">>))
  /\ Len(result.elements) >= 2
  /\ \E i \in 1..Len(result.elements) :
       /\ ents[result.elements[i]].type = JStr(Name.table)
       /\ ents[result.elements[i]].meta[Key.confidence] = JNum(95)
  /\ \E i \in 1..Len(result.elements) : ents[result.elements[i]].type # JStr(Name.table)

\* C7 as stated: a selector branch that contains a token sequence the grammar
\* does not recognise matches no entity; the query returns an empty result.
C7_OddBranchMatchesNothing ==
  (last.op = "query" /\ last.sel \in OddBranches) => result.elements = <<>>

\* the simple selectors of the grammar, as the scanner extracts them: '*',
\* '.type', '#id', '[key]', '[key op value]', ':contains(...)',
\* ':page(n)', ':page(op n)', ':pages(a-b)'
GrammarPart(part) ==
  LET content == Slice(part, 1, Len(part) - 1)
      arg(n) == Slice(part, n, Len(part) - 1)
  IN  \/ part = <<"*">>
      \/ Len(part) > 1 /\ part[1] \in {".", "#"}
      \/ /\ part[1] = "[" /\ part[Len(part)] = "]"
         /\ \/ StringMatch(content).ok
            \/ CompMatch(content).ok
            \/ Len(content) >= 1 /\ RunOfWord(content, 0) = Len(content)
      \/ StartsWith(part, s_containsOpen) /\ part[Len(part)] = ")"
      \/ /\ StartsWith(part, s_pageOpen) /\ part[Len(part)] = ")"
         /\ PageCompMatch(arg(6)).ok \/ parseInt(arg(6)) # JNaN
      \/ /\ StartsWith(part, s_pagesOpen) /\ part[Len(part)] = ")"
         /\ PageRangeMatch(arg(7)).ok

\* the simple selectors the scanner extracts from a branch, after its
\* trailing index pseudo-class is taken off
BranchParts(branch) ==
  parseCompoundSelector(parseIndexPseudoSelector(branch).baseSelector)

HasUnrecognisedPart(branch) ==
  \E i \in 1..Len(BranchParts(branch)) : ~GrammarPart(BranchParts(branch)[i])

\* C7 as amended: a selector branch matches no entity when one of the simple
\* selectors the scanner extracts from it is not one the grammar recognises;
\* text the scanner does not extract is skipped.
C7_UnrecognisedPartMatchesNothing ==
  (last.op = "query" /\ last.sel \in Branches \cup OddBranches
     /\ HasUnrecognisedPart(last.sel)) => result.elements = <<>>

\* the query '.table:bogus' came back empty from a document with a table
C7_Witness ==
  /\ last.op = "query"
  /\ last.sel = Dot(Name.table) \o <<":", "b", "o", "g", "u", "s">>
  /\ HasUnrecognisedPart(last.sel)
  /\ result.elements = <<>>
  /\ \E i \in 1..Len(engine.allEntities) : ents[engine.allEntities[i]].type = JStr(Name.table)

\* the list a call selects from: all entities of the engine for $$(selector),
\* the elements of the receiver for filter(selector)
SelectedFrom(l) == IF l.op = "query" THEN engine.allEntities ELSE result.elements

\* C8: a bare type name used as a selector, as in filter('currency') or
\* $$('table'), selects exactly the entities whose type equals that name.
C8_BareTypeName ==
  [][(last'.op \in {"query", "filter"} /\ last'.sel \in BareTypeSelectors) =>
       result'.elements =
         SelectSeq(SelectedFrom(last'), LAMBDA ref : ents[ref].type = JStr(last'.sel))]_vars

\* Number(value) op n, with n in hundredths
Compares(value, op, n) ==
  LET x == ToNumber(value) IN
  /\ x.t = "number"
  /\ CASE op = <<">">> -> x.n > n
       [] op = <<">", "=">> -> x.n >= n
       [] op = <<"<">> -> x.n < n
       [] op = <<"<", "=">> -> x.n <= n

\* C10: for op among >, >=, <, <= the selector [key op n] matches exactly the
\* entities whose value for key (meta first, then top-level fields), coerced
\* to a number, satisfies the comparison with n, in their original order.
C10_Comparison ==
  [][\A c \in CompareCases :
       (last'.op \in {"query", "filter"} /\ last'.sel = CompareSelector(c)) =>
         result'.elements =
           SelectSeq(SelectedFrom(last'),
                     LAMBDA ref : Compares(getEntityValue(ents[ref], c.key), c.op, c.n))]_vars

\* filter('[confidence>0.9]') kept an entity and left out one whose
\* confidence is exactly 0.9
C10_Witness ==
  /\ last.op = "filter"
  /\ last.sel = AttrSel(Key.confidence, <<">">>, <<"0", ".", "9">>)
  /\ Len(result.elements) > 0
  /\ \A i \in 1..Len(result.elements) : ents[result.elements[i]].meta[Key.confidence].n > 90
  /\ \E ref \in SeqSet(engine.allEntities) \ SeqSet(result.elements) :
       ents[ref].meta[Key.confidence] = JNum(90)

----------------------------------------------------------------------------
(* Claims about the engine's capture (checked under SpecE)                 *)

RECURSIVE SumEntityCounts(_)
SumEntityCounts(pages) ==
  IF Len(pages) = 0 THEN 0 ELSE Len(pages[1].entities) + SumEntityCounts(Tail(pages))

\* C9: an engine ranges over exactly the entities that were in doc.pages when
\* it was created: $$('*').length is the sum of the pages' entity counts at
\* that time, later edits of the pages are not reflected, and later writes to
\* the fields of those entities are seen.
C9_EngineSnapshot ==
  last.op = "query" =>
    LET captured == FlatMapEntities(engine.pagesThen) IN
    /\ last.sel = <<"*">> =>
         /\ result.elements = captured
         /\ Len(result.elements) = SumEntityCounts(engine.pagesThen)
    /\ last.sel = AttrSel(Key.confidence, <<">">>, <<"0", ".", "9">>) =>
         result.elements =
           SelectSeq(captured,
                     LAMBDA ref : Compares(ents[ref].meta[Key.confidence], <<">">>, 90))

\* a query made after the pages were edited and a confidence was raised
\* returns an entity with the raised confidence
C9_Witness ==
  /\ last.op = "query"
  /\ last.sel = AttrSel(Key.confidence, <<">">>, <<"0", ".", "9">>)
  /\ doc.pages # engine.pagesThen
  /\ \E i \in 1..Len(result.elements) :
       ents[result.elements[i]].meta[Key.confidence] = JNum(100)

----------------------------------------------------------------------------
(* Claims about the index pseudo-classes (checked under SpecQ)             *)

\* whether the match at 0-based position pos of len matches is kept
PositionKept(type, n, pos, len) ==
  CASE type = Token.first -> pos = 0
    [] type = Token.last -> pos = len - 1
    [] type = Token.eq -> pos = n
    [] type = Token.gt -> pos > n
    [] type = Token.lt -> pos < n
    [] type = Token.even -> pos % 2 = 0
    [] type = Token.odd -> pos % 2 = 1

\* the matches at the kept positions, in order
KeptMatches(matched, type, n) ==
  LET kept == SelectSeq([i \in 1..Len(matched) |-> i],
                        LAMBDA i : PositionKept(type, n, i - 1, Len(matched)))
  IN  [k \in 1..Len(kept) |-> matched[kept[k]]]

\* C11: a trailing index pseudo-class of a branch is applied after base
\* matching, by 0-based position in the ordered list of the entities that
\* match the rest of the branch: :first and :last give the first and last
\* match, :eq(n) the match at position n (none when there is no such
\* position), :gt(n) and :lt(n) the matches at positions above and below n,
\* :even and :odd those at even and odd positions.
C11_IndexAfterMatching ==
  \A c \in IndexCases :
    (last.op = "query" /\ last.sel = IndexSelector(c)) =>
      result.elements =
        KeptMatches(SelectSeq(engine.allEntities,
                              LAMBDA ref : matchesSelector(ents[ref], c.base)),
                    c.type, c.n)

\* '.table:first' returned the table although the table is not the first
\* entity of the document
C11_Witness ==
  /\ last.op = "query"
  /\ last.sel = Dot(Name.table) \o <<":">> \o Token.first
  /\ Len(result.elements) = 1
  /\ ents[result.elements[1]].type = JStr(Name.table)
  /\ result.elements[1] # engine.allEntities[1]


----------------------------------------------------------------------------
(* Claims about the read operations (checked under SpecR)                  *)

\* the 0-based position of ref in a list without repetitions
PositionIn(list, ref) == CHOOSE i \in 1..Len(list) : list[i] = ref

\* C12: in the result of sortByPosition(), for every pair of entities whose
\* bbox.ymin differ by at most 0.01 the one with the smaller bbox.xmin comes
\* first, and entities that tie on both keys keep their input order, for any
\* input list.
C12_SortByPosition ==
  last.op = "sortByPosition" =>
    \A i, j \in 1..Len(derived.elements) :
      (i < j /\ Abs(ents[derived.elements[i]].bbox.ymin
                     - ents[derived.elements[j]].bbox.ymin) <= PositionTolerance) =>
        /\ ents[derived.elements[i]].bbox.xmin <= ents[derived.elements[j]].bbox.xmin
        /\ ents[derived.elements[i]].bbox.xmin = ents[derived.elements[j]].bbox.xmin =>
             PositionIn(result.elements, derived.elements[i])
               < PositionIn(result.elements, derived.elements[j])

----------------------------------------------------------------------------
(* Claims about the frame of the read operations (checked under SpecP)     *)

ReadOperations ==
  {"filter", "not", "contains", "matches", "onPage", "inTable", "take", "skip",
   "first", "last", "eq", "byId", "sortBy", "sortByConfidence", "sortByPosition"}

\* the step left every entity's fields, the document and its version, and the
\* receiver's elements and mutation log as they were
ReadFrame ==
  /\ ents' = ents
  /\ doc' = doc
  /\ result'.elements = result.elements
  /\ result'.mutationLog = result.mutationLog

\* C13 as stated: each read operation (filter, not, contains, matches, onPage,
\* inTable, take, skip, first, last, eq, byId, sortBy, sortByConfidence,
\* sortByPosition) is pure and returns a new QueryResult over the same doc:
\* it leaves every entity's fields, doc.version, and the receiver's element
\* order and mutation log unchanged.
C13_ReadReturnsQueryResult ==
  [][last'.op \in ReadOperations =>
       /\ ReadFrame
       /\ derived'.isQueryResult
       /\ derived'.mutationLog = <<>>]_vars

\* C13 as amended: each read operation leaves every entity's fields,
\* doc.version, and the receiver's element order and mutation log unchanged;
\* first() and last() return the receiver's first and last element itself (or
\* undefined), every other read operation returns a new QueryResult, with a
\* mutation log of its own, over the same doc.
C13_ReadOperationsPure ==
  [][last'.op \in ReadOperations =>
       /\ ReadFrame
       /\ CASE last'.op = "first" ->
                 /\ ~derived'.isQueryResult
                 /\ derived'.entity = (IF result.elements = <<>> THEN 0 ELSE Head(result.elements))
            [] last'.op = "last" ->
                 /\ ~derived'.isQueryResult
                 /\ derived'.entity = (IF result.elements = <<>> THEN 0
                                       ELSE result.elements[Len(result.elements)])
            [] OTHER ->
                 /\ derived'.isQueryResult
                 /\ derived'.mutationLog = <<>>]_vars

\* sortByConfidence() on a receiver with a mutation log returned the
\* elements in another order; the receiver kept its order and its log
C13_Witness ==
  /\ last.op = "sortByConfidence"
  /\ result.mutationLog # <<>>
  /\ derived.isQueryResult
  /\ derived.mutationLog = <<>>
  /\ Len(derived.elements) = 3
  /\ derived.elements # result.elements
  /\ result.elements = engine.allEntities

----------------------------------------------------------------------------
(* Claims about data() (checked under SpecD)                               *)

\* the value the entries of a data() call give to key: that of the last entry
\* with that key
EntryValue(values, key) ==
  values[CHOOSE i \in 1..Len(values) :
           /\ values[i][1] = key
           /\ \A j \in (i + 1)..Len(values) : values[j][1] # key][2]

EntryKeys(values) == {values[i][1] : i \in 1..Len(values)}

\* the bag after the write holds the values written and what it held before
BagWritten(before, after, values) ==
  /\ after.present
  /\ DOMAIN after.bag = DOMAIN before.bag \cup EntryKeys(values)
  /\ \A k \in DOMAIN after.bag :
       after.bag[k] = IF k \in EntryKeys(values) THEN EntryValue(values, k)
                      ELSE before.bag[k]

\* C14: data(key, value) and data(object) write only into the _data bag of
\* every entity in the result (creating the bag when absent): they never
\* modify meta or top-level entity fields, append nothing to the mutation log
\* and leave doc.version unchanged; data(key) reads the first entity's
\* _data[key] and falls back to meta[key] only when _data has no such key.
C14_DataBag ==
  [][/\ last'.op = "data" =>
          /\ \A ref \in DOMAIN ents :
               /\ ents'[ref] = [ents[ref] EXCEPT !._data = ents'[ref]._data]
               /\ IF \E i \in 1..Len(result.elements) : result.elements[i] = ref
                  THEN BagWritten(ents[ref]._data, ents'[ref]._data, last'.attrs)
                  ELSE ents'[ref]._data = ents[ref]._data
          /\ result' = result
          /\ doc' = doc
     /\ (last'.op = "dataGet" /\ Len(result.elements) > 0) =>
          /\ last'.ret =
               (IF /\ ents[result.elements[1]]._data.present
                   /\ last'.sel \in DOMAIN ents[result.elements[1]]._data.bag
                THEN ents[result.elements[1]]._data.bag[last'.sel]
                ELSE IF /\ last'.sel \in MetaKeys
                        /\ ents[result.elements[1]].meta[last'.sel] # Absent
                THEN ents[result.elements[1]].meta[last'.sel]
                ELSE JUndefined)
          /\ UNCHANGED <<ents, doc, result>>]_vars

\* data('confidence') answered undefined from the bag of the figure, written
\* by data({confidence: undefined, note: 'pending'}), although meta holds a
\* confidence; the table outside the result has no bag, and the receiver's
\* mutation log holds the tracked write made since
C14_Witness ==
  /\ last.op = "dataGet"
  /\ last.sel = Key.confidence
  /\ last.ret = JUndefined
  /\ Len(result.elements) = 1
  /\ ents[result.elements[1]]._data.present
  /\ Key.confidence \in DOMAIN ents[result.elements[1]]._data.bag
  /\ ents[result.elements[1]]._data.bag[Key.note] = JStr(Name.pending)
  /\ ents[result.elements[1]].meta[Key.confidence].t = "number"
  /\ \E ref \in DOMAIN ents : ~ents[ref]._data.present
  /\ result.mutationLog # <<>>

----------------------------------------------------------------------------
(* Claims about markdown() (checked under SpecM)                           *)

\* the ways a transform request fails: fetch rejects, the response is not
\* OK, its body does not parse, or the body holds no success
RequestFailures == {<<"error">>, <<"notOk">>, <<"unparsable">>, <<"noSuccess">>}

\* the markdown() promises that the step settled or created
Touched ==
  {i \in 1..Len(promises'.markdown) :
     i > Len(promises.markdown) \/ promises'.markdown[i] # promises.markdown[i]}

\* C15: markdown() never rejects: on an empty result it resolves to the empty
\* string, and when the transform request fails in any way (network error,
\* non-OK status, unparsable body, or a response without success) it resolves
\* to the first entity's existing text and leaves entity._data.transformation
\* as it was before the call.
C15_MarkdownNeverRejects ==
  [][/\ \A i \in 1..Len(promises'.markdown) : promises'.markdown[i].state # "rejected"
     /\ (last'.op = "markdown" /\ result.elements = <<>>) =>
          \A i \in Touched : /\ promises'.markdown[i].state = "resolved"
                              /\ promises'.markdown[i].value = JStr(<<>>)
     /\ (last'.op \in {"fetchSettled", "jsonSettled"} /\ last'.sel \in RequestFailures) =>
          \A i \in Touched :
            /\ promises'.markdown[i].state = "resolved"
            /\ promises'.markdown[i].value = ents[promises.markdown[i].entity].text
            /\ ents' = ents]_vars

\* the second markdown() call, forced, for the figure got a body that does
\* not parse and resolved to the text of the figure; the transformation the
\* first call had stored is still there
C15_Witness ==
  /\ last.op = "jsonSettled"
  /\ last.sel = <<"unparsable">>
  /\ Len(promises.markdown) = 2
  /\ promises.markdown[1].entity = promises.markdown[2].entity
  /\ promises.markdown[1].value = JStr(<<"|", "a", "|">>)
  /\ promises.markdown[2].requested
  /\ promises.markdown[2].state = "resolved"
  /\ promises.markdown[2].value = JStr(<<"F", "i", "g">>)
  /\ cachedTransformation(ents[promises.markdown[2].entity]) =
       TransformationResult(<<"|", "a", "|">>)

\* C16: once a markdown() call has succeeded for an entity, its result is
\* stored on entity._data.transformation, and every later markdown() call on
\* that entity without force resolves to the cached markdown without issuing
\* a request; a later call with force: true (and an imageUrl) issues a new
\* request and, if it succeeds, replaces the cached result.
C16_MarkdownCache ==
  [][/\ (last'.op = "jsonSettled" /\ last'.sel = <<"success">>) =>
          \A i \in Touched :
            /\ promises'.markdown[i].state = "resolved"
            /\ cachedTransformation(ents'[promises.markdown[i].entity]) =
                 TransformationResult(promises'.markdown[i].value.s)
     /\ \A ref \in DOMAIN ents :
          (ToBoolean(cachedTransformation(ents[ref])) /\ last'.sel # <<"success">>) =>
            cachedTransformation(ents'[ref]) = cachedTransformation(ents[ref])
     /\ (last'.op = "markdown" /\ result.elements # <<>>
           /\ ToBoolean(cachedTransformation(ents[result.elements[1]]))) =>
          \A i \in Touched :
            IF ~last'.attrs[2][2].b
            THEN /\ ~promises'.markdown[i].requested
                 /\ promises'.markdown[i].state = "resolved"
                 /\ promises'.markdown[i].value =
                      JStr(cachedTransformation(ents[result.elements[1]]).s)
            ELSE last'.attrs[1][2].b =>
                   /\ promises'.markdown[i].requested
                   /\ promises'.markdown[i].state = "pending"]_vars

\* the first markdown() call stored its result on the figure; the second,
\* given an imageUrl and no force, resolved to the stored markdown without a
\* request
C16_Witness ==
  /\ last.op = "markdown"
  /\ last.attrs = OptionEntries([imageUrl |-> TRUE, force |-> FALSE])
  /\ Len(promises.markdown) = 2
  /\ promises.markdown[1].requested
  /\ promises.markdown[1].value = JStr(<<"|", "b", "|">>)
  /\ promises.markdown[2].entity = promises.markdown[1].entity
  /\ ~promises.markdown[2].requested
  /\ promises.markdown[2].state = "resolved"
  /\ promises.markdown[2].value = JStr(<<"|", "b", "|">>)

\* a forced markdown() call replaced the markdown stored by the first call
C16_WitnessReplaced ==
  /\ last.op = "jsonSettled"
  /\ last.sel = <<"success">>
  /\ Len(promises.markdown) = 2
  /\ promises.markdown[2].entity = promises.markdown[1].entity
  /\ promises.markdown[1].value = JStr(<<"|", "a", "|">>)
  /\ promises.markdown[2].value = JStr(<<"|", "b", "|">>)
  /\ cachedTransformation(ents[promises.markdown[2].entity]) =
       TransformationResult(<<"|", "b", "|">>)

----------------------------------------------------------------------------
(* Claims about fetchPages (checked under SpecF)                           *)

\* C17: fetchPages starts one page request per requested page number without
\* waiting for earlier ones to finish, and is all-or-nothing: if any single
\* page request fails the whole call rejects and no partial result is
\* returned, whatever the order in which the requests complete; only when all
\* requests succeed does it resolve.
C17_FetchPagesAllOrNothing ==
  [][promises'.fetchPages.called =>
       /\ Len(promises'.fetchPages.requests) = Len(promises'.fetchPages.pageNumbers)
       /\ last'.op = "fetchPages" =>
            \A i \in 1..Len(promises'.fetchPages.requests) :
              promises'.fetchPages.requests[i] = "fetch"
       /\ promises'.fetchPages.state = "rejected" <=>
            \E i \in 1..Len(promises'.fetchPages.requests) :
              promises'.fetchPages.requests[i] = "rejected"
       /\ promises'.fetchPages.state = "resolved" <=>
            \A i \in 1..Len(promises'.fetchPages.requests) :
              promises'.fetchPages.requests[i] = "fulfilled"
       /\ promises'.fetchPages.value =
            IF promises'.fetchPages.state = "resolved"
            THEN promises'.fetchPages.pageNumbers ELSE <<>>]_vars

\* of three page requests the first succeeded and the second failed while the
\* third was still in flight: the call is rejected and holds no result
C17_Witness ==
  /\ promises.fetchPages.called
  /\ promises.fetchPages.requests = <<"fulfilled", "rejected", "fetch">>
  /\ promises.fetchPages.state = "rejected"
  /\ promises.fetchPages.value = <<>>

(***************************************************************************)
(* C18: the order of the compiled pages and of their entities              *)
(***************************************************************************)

\* the layers in the order buildPage reads them
LayerOrder == <<"tables", "entities", "extractedEntities", "ocrBlocks", "markdownBlocks">>

\* the place of the item with this id in a layer of the compiler, 0 if none
IndexOfId(layer, id) ==
  IF \E i \in 1..Len(compiler[layer]) : compiler[layer][i].id = id
  THEN CHOOSE i \in 1..Len(compiler[layer]) : compiler[layer][i].id = id
  ELSE 0

\* when buildPage inserted an entity: by layer, by place in the layer, a
\* table before its cells, the cells row by row and column by column
InsertionRank(e) ==
  IF e.tableId # Absent
  THEN <<1, IndexOfId("tables", e.tableId.s), 1, e.rowIndex.n, e.colIndex.n>>
  ELSE <<CHOOSE k \in 1..Len(LayerOrder) : IndexOfId(LayerOrder[k], e.id) > 0,
         IndexOfId(LayerOrder[CHOOSE k \in 1..Len(LayerOrder) :
                                IndexOfId(LayerOrder[k], e.id) > 0], e.id),
         0, 0, 0>>

RankBefore(a, b) ==
  \E k \in 1..Len(a) : a[k] < b[k] /\ \A j \in 1..(k - 1) : a[j] = b[j]

\* C18: after compile(), whatever was added to the layers and in whatever
\* order, the pages are in strictly ascending page number order, and within
\* a page the entities are in ascending bbox.ymin order, entities of equal
\* ymin in their insertion order (tables with their cells, then field
\* entities, extracted entities, OCR blocks, markdown blocks, each in the
\* order added)
C18_CompileOrder ==
  last.op = "compile" =>
    /\ \A i \in 1..(Len(doc.pages) - 1) : doc.pages[i].pageIndex < doc.pages[i + 1].pageIndex
    /\ \A p \in 1..Len(doc.pages) :
         \A i, j \in 1..Len(doc.pages[p].entities) :
           i < j =>
             /\ ents[doc.pages[p].entities[i]].bbox.ymin <= ents[doc.pages[p].entities[j]].bbox.ymin
             /\ ents[doc.pages[p].entities[i]].bbox.ymin = ents[doc.pages[p].entities[j]].bbox.ymin
                  => RankBefore(InsertionRank(ents[doc.pages[p].entities[i]]),
                                InsertionRank(ents[doc.pages[p].entities[j]]))

\* both tables, the second added first, the field entity, both OCR blocks,
\* the second added first, and the items of page 2 were compiled: two pages,
\* and on page 1 entities of every layer but the last share a ymin
C18_Witness ==
  /\ last.op = "compile"
  /\ Len(compiler.tables) = 2 /\ compiler.tables[1].id = id_t2
  /\ Len(compiler.ocrBlocks) = 2 /\ compiler.ocrBlocks[1].id = id_o2
  /\ Len(compiler.entities) = 1
  /\ Len(compiler.extractedEntities) = 1 /\ Len(compiler.markdownBlocks) = 1
  /\ Len(doc.pages) = 2
  /\ Len(doc.pages[1].entities) = 12
  /\ \E i, j \in 1..Len(doc.pages[1].entities) :
       /\ ents[doc.pages[1].entities[i]].id = id_o2
       /\ ents[doc.pages[1].entities[j]].tableId = JStr(id_t1)
       /\ ents[doc.pages[1].entities[i]].bbox.ymin = ents[doc.pages[1].entities[j]].bbox.ymin

(***************************************************************************)
(* C19: the cells of a table                                               *)
(***************************************************************************)

\* the number of blank cells in parsed rows
RECURSIVE BlankCells(_)
BlankCells(rows) ==
  IF Len(rows) = 0 THEN 0
  ELSE Cardinality({c \in 1..Len(rows[1].cells) : Len(Trim(rows[1].cells[c])) = 0})
       + BlankCells(Tail(rows))

\* the cell entities the compiled document holds for a table
CellsOf(table) == {i \in 1..Len(ents) : ents[i].tableId = JStr(table.id)}

Within(inner, outer) ==
  /\ outer.xmin <= inner.xmin /\ inner.xmin <= inner.xmax /\ inner.xmax <= outer.xmax
  /\ outer.ymin <= inner.ymin /\ inner.ymin <= inner.ymax /\ inner.ymax <= outer.ymax

\* the number of cells decomposed from a table is at most R*C minus the blanks
C19_CellCount ==
  last.op = "compile" =>
    \A t \in 1..Len(compiler.tables) :
      LET AtMost(table, parsed) ==
            Cardinality(CellsOf(table))
              <= Len(parsed.rows) * parsed.columnCount - BlankCells(parsed.rows)
      IN  AtMost(compiler.tables[t], parseMarkdownTable(compiler.tables[t].markdown))

\* C19: for a table whose markdown parses into R rows of at most C cells and
\* whose bbox has xmin <= xmax and ymin <= ymax, the number of decomposed
\* cell entities is at most R*C minus the number of blank cells, and every
\* cell entity's bbox lies within the table's bbox
C19_CellsWithinTable ==
  last.op = "compile" =>
    \A t \in 1..Len(compiler.tables) :
      LET Holds(table, parsed) ==
            (table.bbox.xmin <= table.bbox.xmax /\ table.bbox.ymin <= table.bbox.ymax) =>
              /\ Cardinality(CellsOf(table))
                   <= Len(parsed.rows) * parsed.columnCount - BlankCells(parsed.rows)
              /\ \A i \in CellsOf(table) : Within(ents[i].bbox, table.bbox)
      IN  Holds(compiler.tables[t], parseMarkdownTable(compiler.tables[t].markdown))

(***************************************************************************)
(* C20: a table with a header row and one data row                         *)
(***************************************************************************)

\* compile() has run on a compiler that holds the one table
\* "| A | B |\n|---|---|\n| 1 | 2 |" with bbox {0, 0, 1, 0.5} on page 1
ExampleTableCompiled ==
  /\ last.op = "compile"
  /\ compiler = [NewCompiler EXCEPT !.tables = <<SourceTableOf(id_t1, TableMarkdown, 100)>>]

\* the entities of page 1, in page order
PageOneEntities ==
  IF Len(doc.pages) >= 1 /\ doc.pages[1].pageIndex = 0
  THEN [i \in 1..Len(doc.pages[1].entities) |-> ents[doc.pages[1].entities[i]]]
  ELSE <<>>

\* a cell entity with this text and numeric value, within the table's bbox
NumericCell(e, text, n) ==
  /\ e.tableId = JStr(id_t1)
  /\ e.text = JStr(text)
  /\ e.value = JNum(n)
  /\ Within(e.bbox, [xmin |-> 0, ymin |-> 0, xmax |-> 100, ymax |-> 50])

\* C20: compiling a single SourceTable on page 1 with a header row (A, B), a
\* separator row and one data row (1, 2) and bbox {0,0,1,0.5} yields a
\* document whose page 1 consists of one table entity plus two numeric cell
\* entities (the cells 1 and 2), each cell bbox nested within {0,0,1,0.5}
C20_TablePlusTwoCells ==
  ExampleTableCompiled =>
    /\ Len(doc.pages) = 1
    /\ Len(PageOneEntities) = 3
    /\ \E t, a, b \in 1..Len(PageOneEntities) :
         /\ PageOneEntities[t].type = JStr(Name.table) /\ PageOneEntities[t].id = id_t1
         /\ NumericCell(PageOneEntities[a], <<"1">>, 100)
         /\ NumericCell(PageOneEntities[b], <<"2">>, 200)

\* C20 as the code has it: page 1 consists of the table entity, the two
\* cells of the header row (A and B, of type header, without a value) and
\* the two cells of the data row with the numeric values 1 and 2, in this
\* order, each cell bbox nested within {0,0,1,0.5}
C20_TableHeaderAndCells ==
  ExampleTableCompiled =>
    /\ Len(doc.pages) = 1
    /\ Len(PageOneEntities) = 5
    /\ PageOneEntities[1].type = JStr(Name.table) /\ PageOneEntities[1].id = id_t1
    /\ \A i \in 2..3 :
         /\ PageOneEntities[i].type = JStr(Name.header)
         /\ PageOneEntities[i].tableId = JStr(id_t1)
         /\ PageOneEntities[i].value = JUndefined
         /\ Within(PageOneEntities[i].bbox, [xmin |-> 0, ymin |-> 0, xmax |-> 100, ymax |-> 50])
    /\ PageOneEntities[2].text = JStr(<<"A">>) /\ PageOneEntities[3].text = JStr(<<"B">>)
    /\ NumericCell(PageOneEntities[4], <<"1">>, 100)
    /\ NumericCell(PageOneEntities[5], <<"2">>, 200)

\* the table was compiled and its page holds the cells of both rows
C20_Witness ==
  /\ ExampleTableCompiled
  /\ Len(PageOneEntities) = 5
  /\ PageOneEntities[4].bbox = [xmin |-> 0, ymin |-> 25, xmax |-> 50, ymax |-> 50]

(***************************************************************************)
(* C21: compile() never throws                                             *)
(***************************************************************************)

\* the entities of the compiled document with this id
EntitiesWithId(id) == {i \in 1..Len(ents) : ents[i].id = id}

LayerIds(c) ==
  UNION {{c[LayerOrder[k]][i].id : i \in 1..Len(c[LayerOrder[k]])} : k \in 1..Len(LayerOrder)}

\* the number of items in the layers of a compiler
LayerCount(c) ==
  Len(c.tables) + Len(c.entities) + Len(c.extractedEntities) + Len(c.ocrBlocks)
  + Len(c.markdownBlocks)

\* the ids of the entities that are no cells of a table
ItemEntityIds(es) == {es[i].id : i \in {j \in 1..Len(es) : es[j].tableId = Absent}}

FinancialReportLoaded == compiler = FixtureCompiler(financialReportFixture)

\* C23: in the document produced by loadFixture('financial-report'), the
\* query $$('.table') returns exactly 4 entities, one per table of the
\* fixture
C23_FixtureTables ==
  (FinancialReportLoaded /\ last.op = "query" /\ last.sel = Dot(Name.table)) =>
    /\ Len(result.elements) = 4
    /\ \A t \in 1..Len(financialReportFixture.tables) :
         Cardinality({i \in 1..Len(result.elements) :
                        ents[result.elements[i]].id = financialReportFixture.tables[t].id}) = 1

\* what the query returns: two entities per table of the fixture, the one
\* made of the table and the one made of the extracted entity of type table
C23_FixtureTablesTwice ==
  (FinancialReportLoaded /\ last.op = "query" /\ last.sel = Dot(Name.table)) =>
    /\ Len(result.elements) = 8
    /\ \A t \in 1..Len(financialReportFixture.tables) :
         Cardinality({i \in 1..Len(result.elements) :
                        ents[result.elements[i]].id = financialReportFixture.tables[t].id}) = 2

----------------------------------------------------------------------------
(* The Tesseract adapter                                                   *)

\* the record image_to_data(output_type=Output.DICT) returns: one array per
\* column.  conf, left, top, width and height are whole numbers (percent and
\* pixels); the numbers of a block are in hundredths like every other number
TesseractDataDict(rows) ==
  [level |-> [i \in 1..Len(rows) |-> rows[i].level],
   page_num |-> [i \in 1..Len(rows) |-> rows[i].page_num],
   block_num |-> [i \in 1..Len(rows) |-> 1],
   line_num |-> [i \in 1..Len(rows) |-> 1],
   word_num |-> [i \in 1..Len(rows) |-> i],
   left |-> [i \in 1..Len(rows) |-> rows[i].left],
   top |-> [i \in 1..Len(rows) |-> 20],
   width |-> [i \in 1..Len(rows) |-> 50],
   height |-> [i \in 1..Len(rows) |-> 10],
   conf |-> [i \in 1..Len(rows) |-> rows[i].conf],
   text |-> [i \in 1..Len(rows) |-> rows[i].text]]

\* Math.max(...page_num, 1)
MaxPageNum(page_num) ==
  CHOOSE m \in {page_num[i] : i \in 1..Len(page_num)} \cup {1} :
    \A i \in 1..Len(page_num) : page_num[i] <= m /\ 1 <= m

\* the filter of the loop: an entry is skipped when its trimmed text is empty
\* (!text), when its conf is below zero, or when its level is none of
\* 3 (paragraph), 4 (line), 5 (word)
tesseractKeeps(dict, i) ==
  /\ Len(Trim(dict.text[i])) > 0
  /\ ~(dict.conf[i] < 0)
  /\ dict.level[i] \in {3, 4, 5}

fromPytesseract(dict, imageDimensions) ==
  LET kept == SelectSeq([i \in 1..Len(dict.text) |-> i],
                        LAMBDA i : tesseractKeeps(dict, i))
      block(i) ==
        [id |-> <<"t", "e", "s", "s", "-">> \o NatToString(dict.page_num[i])
                  \o <<"-">> \o NatToString(dict.block_num[i])
                  \o <<"-">> \o NatToString(dict.line_num[i])
                  \o <<"-">> \o NatToString(dict.word_num[i]),
         page |-> dict.page_num[i],
         text |-> Trim(dict.text[i]),
         bbox |-> [x |-> Divide(100 * dict.left[i], imageDimensions.width),
                   y |-> Divide(100 * dict.top[i], imageDimensions.height),
                   width |-> Divide(100 * dict.width[i], imageDimensions.width),
                   height |-> Divide(100 * dict.height[i], imageDimensions.height)],
         confidence |-> Divide(100 * dict.conf[i], 100),
         type |-> CASE dict.level[i] = 4 -> <<"l", "i", "n", "e">>
                    [] dict.level[i] = 5 -> <<"w", "o", "r", "d">>
                    [] dict.level[i] = 3 -> <<"p", "a", "r", "a", "g", "r", "a", "p", "h">>]
  IN  [blocks |-> [k \in 1..Len(kept) |-> block(kept[k])],
       tables |-> <<>>,
       pageCount |-> MaxPageNum(dict.page_num)]

\* the entries a data dict is made of: texts that are empty, blank, plain
\* and padded; conf over the range pytesseract documents (-1 for non-text,
\* 0..100 for text); every level
TesseractRows(page_num, left) ==
  [text : {<<>>, <<" ">>, <<"a">>, <<" ", "b", " ">>},
   conf : {-1, 0, 1, 95, 100},
   level : 1..5,
   page_num : {page_num},
   left : {left}]

TesseractInputs ==
  {<<r>> : r \in TesseractRows(1, 0)}
    \cup {<<r, s>> : r \in {t \in TesseractRows(1, 0) : t.level = 5 /\ t.text = <<"a">>},
                     s \in {t \in TesseractRows(2, 100) :
                              t.level = 4 /\ t.text = <<" ", "b", " ">>}}

\* fromPytesseract(dict, {width: 200, height: 100})
fromPytesseractCalled ==
  /\ pure.fn = "fromPytesseract"
  /\ ~pure.called
  /\ pure' = [pure EXCEPT !.called = TRUE,
                          !.ret = fromPytesseract(pure.args[1], pure.args[2])]
  /\ last' = Call("fromPytesseract", <<>>, <<>>, JUndefined)
  /\ UNCHANGED <<compiler, ents, doc, engine, result, derived, promises>>

NextT == fromPytesseractCalled

\* a data dict about to be converted
InitT ==
  /\ \E rows \in TesseractInputs :
       pure = [fn |-> "fromPytesseract",
               args |-> <<TesseractDataDict(rows), [width |-> 200, height |-> 100]>>,
               called |-> FALSE, ret |-> <<>>]
  /\ compiler = NewCompiler
  /\ ents = <<>>
  /\ doc = [version |-> 0, pages |-> <<>>, edits |-> 0, meta |-> documentMeta(<<>>)]
  /\ engine = [created |-> FALSE, allEntities |-> <<>>, pagesThen |-> <<>>]
  /\ result = [elements |-> <<>>, mutationLog |-> <<>>]
  /\ derived = NothingDerived
  /\ promises = NoPromises
  /\ last = [op |-> "", sel |-> <<>>, attrs |-> <<>>, ret |-> JUndefined,
             version |-> 0, logLen |-> 0]

SpecT == InitT /\ [][NextT]_vars

\* the blocks of the call that has returned
EmittedBlocks ==
  IF pure.fn = "fromPytesseract" /\ pure.called
  THEN {pure.ret.blocks[k] : k \in 1..Len(pure.ret.blocks)}
  ELSE {}

\* C24 (as stated): for any input whose conf values lie in -1..100, every
\* block fromPytesseract emits has non-empty text and a confidence strictly
\* greater than 0 and at most 1
C24_BlocksConfident ==
  \A b \in EmittedBlocks :
    /\ Len(b.text) > 0
    /\ b.confidence > 0
    /\ b.confidence <= 100

\* C24 (what the code guarantees): every emitted block has non-empty trimmed
\* text and a confidence in 0..1, and there is one block for each entry with
\* text, a conf of 0 or more and a level of 3..5
C24_BlocksConfidenceFromZero ==
  /\ \A b \in EmittedBlocks :
       /\ Len(b.text) > 0
       /\ b.text = Trim(b.text)
       /\ b.confidence >= 0
       /\ b.confidence <= 100
  /\ pure.fn = "fromPytesseract" /\ pure.called =>
       Len(pure.ret.blocks) =
         Cardinality({i \in 1..Len(pure.args[1].text) : tesseractKeeps(pure.args[1], i)})

\* a call that emitted a block of confidence 0
C24_ZeroConfidenceEmitted ==
  \E b \in EmittedBlocks : b.confidence = 0

----------------------------------------------------------------------------
(* Claims about the routing of writes (checked under SpecA)                *)

\* the top-level fields no tracked mutation may write
FrameFields(entity) ==
  <<entity.id, entity.pageIndex, entity.bbox, entity.tableId, entity.rowIndex,
    entity.colIndex, entity._data>>

\* the mutable top-level fields
MutableFields(entity) == <<entity.text, entity.value, entity.type>>

\* entity after a write of value under key, as the claim C25 routes it
Routed(entity, key, value) ==
  IF key \in mutableEntityFields
  THEN /\ TopField(entity, key) = value
  ELSE /\ entity.meta[key] = value

\* what a write under key must leave alone
RoutedFrame(before, after, key) ==
  IF key \in mutableEntityFields
  THEN /\ after.meta = before.meta
       /\ \A k \in mutableEntityFields \ {key} : TopField(after, k) = TopField(before, k)
  ELSE /\ \A k \in MetaKeys \ {key} : after.meta[k] = before.meta[k]
       /\ MutableFields(after) = MutableFields(before)

C25_WitnessTopLevel ==
  /\ last.op = "attr" /\ last.attrs[1][1] = Key.text
  /\ \E i \in ElementSet : ents[i].text = last.attrs[1][2] /\ ents[i].id = id_t1

----------------------------------------------------------------------------
(* Claims about the mutation log (checked under SpecL)                     *)

\* C26: a QueryResult returned by the engine or by a read operation starts
\* with an empty log; a call through one QueryResult appends exactly its own
\* records, in order, to the log of that QueryResult and never to the log of
\* another QueryResult over the same entities; changes(), hasChanges() and
\* getMutationLog() report that log; clearChanges() empties it without
\* altering any entity or doc.version.
C26_LogPerInstance ==
  [][/\ last'.op = "query" => changes(result') = <<>> /\ ~hasChanges(result')
     /\ last'.op = "filter" =>
          /\ derived'.isQueryResult
          /\ changes(derived') = <<>>
          /\ changes(result') = changes(result)
     /\ last'.op \in {"attr", "removeAttr", "toggleAttr"} =>
          /\ derived' = derived
          /\ Len(changes(result')) >= Len(changes(result))
          /\ SubSeq(changes(result'), 1, Len(changes(result))) = changes(result)
          /\ \A n \in (Len(changes(result)) + 1)..Len(changes(result')) :
               /\ changes(result')[n].field = last'.attrs[1][1]
               /\ \E ref \in ElementSet : changes(result')[n].entityId = ents[ref].id
          /\ getMutationLog(result').changes = changes(result')
          /\ hasChanges(result') = (changes(result') # <<>>)
     /\ (last'.op = "attr" /\ Len(last'.attrs) = 1) =>
          changes(result') =
            changes(result) \o ExpectedChanges(ents, result.elements,
                                                last'.attrs[1][1], last'.attrs[1][2])
     /\ last'.op = "removeAttr" =>
          changes(result') =
            changes(result) \o ExpectedRemovals(ents, result.elements, last'.attrs[1][1])
     /\ last'.op = "clearChanges" =>
          /\ changes(result') = <<>> /\ ~hasChanges(result')
          /\ ents' = ents /\ doc' = doc /\ derived' = derived
     /\ last'.op = "otherInstance" =>
          /\ changes(result') = changes(derived) /\ changes(derived') = changes(result)
          /\ ents' = ents /\ doc' = doc]_vars

\* two QueryResults over the same entity hold different logs: each has a
\* record of that entity the other has not
C26_Witness ==
  /\ derived.isQueryResult
  /\ \E a \in 1..Len(changes(result)), b \in 1..Len(changes(derived)) :
       /\ changes(result)[a].entityId = changes(derived)[b].entityId
       /\ \A n \in 1..Len(changes(derived)) : changes(derived)[n] # changes(result)[a]
       /\ \A n \in 1..Len(changes(result)) : changes(result)[n] # changes(derived)[b]

\* clearChanges() emptied the log of one QueryResult while the other kept its
\* records and the entities kept the values written
C26_WitnessCleared ==
  /\ last.op = "clearChanges"
  /\ ~hasChanges(result) /\ hasChanges(derived)
  /\ \E i \in 1..Len(ents) : ents[i].meta[Key.verified] = JBool(TRUE)

----------------------------------------------------------------------------
(* Claims about toggleAttr (checked under Spec)                            *)

\* C27: a single toggleAttr call on a result of N entities increases
\* doc.version by at most N, and by 0 when the result is empty.
C27_ToggleVersionBound ==
  [][last'.op = "toggleAttr" =>
       /\ doc'.version >= doc.version
       /\ doc'.version - doc.version <= Len(result.elements)
       /\ Len(result.elements) = 0 => doc'.version = doc.version]_vars

\* a toggleAttr call on a result of two or more entities raised doc.version
\* once for each of them
C27_Witness ==
  /\ last.op = "toggleAttr"
  /\ Len(result.elements) >= 2
  /\ doc.version = last.version + Len(result.elements)

\* a toggleAttr call on an empty result
C27_WitnessEmpty ==
  /\ last.op = "toggleAttr"
  /\ Len(result.elements) = 0
  /\ doc.version = last.version

\* a toggleAttr call with force on entities that all held the forced value:
\* no record and no increment
C27_WitnessNoChange ==
  /\ last.op = "toggleAttr"
  /\ Len(result.elements) >= 2
  /\ doc.version = last.version

----------------------------------------------------------------------------
(* Type detection                                                          *)

\* the suggested values and the field labels of the detection runs
DetectTexts ==
  {<<"$", "1", "0">>,
   <<"1", "2", "%">>,
   <<"2", "0", "2", "4", "-", "0", "1", "-", "0", "2">>,
   <<"1", ",", "2", "0", "0">>,
   <<"n", "/", "a">>,
   <<>>,
   <<" ", "7", " ">>,
   <<"Q", "3", " ", "t", "o", "t", "a", "l">>}

DetectLabels ==
  {NoLabel,
   <<"T", "o", "t", "a", "l">>,
   <<"S", "u", "b", "t", "o", "t", "a", "l">>,
   <<"S", "U", "B", "T", "O", "T", "A", "L">>,
   <<"S", "u", "b", "-", "t", "o", "t", "a", "l">>,
   <<"D", "a", "t", "e">>,
   <<"D", "u", "e", " ", "d", "a", "t", "e">>,
   <<"A", "m", "o", "u", "n", "t">>,
   <<"T", "o", "t", "a", "l", " ", "t", "o", " ", "d", "a", "t", "e">>,
   <<"s", "u", "b", "t", "o", "t", "a", "l", " ", "b", "y", " ", "d", "a", "t", "e">>}

\* detectEntityType(text, label), as sourceEntityToVirtual calls it with the
\* suggested_value and the field_label of an entity
detectEntityTypeCalled ==
  /\ pure.fn = "detectEntityType"
  /\ ~pure.called
  /\ pure' = [pure EXCEPT !.called = TRUE,
                          !.ret = detectEntityType(pure.args[1], pure.args[2])]
  /\ last' = Call("detectEntityType", <<>>, <<>>, JUndefined)
  /\ UNCHANGED <<compiler, ents, doc, engine, result, derived, promises>>

NextY == detectEntityTypeCalled

\* a text and a label about to be classified
InitY ==
  /\ \E text \in DetectTexts, label \in DetectLabels :
       pure = [fn |-> "detectEntityType", args |-> <<text, label>>,
               called |-> FALSE, ret |-> <<>>]
  /\ compiler = NewCompiler
  /\ ents = <<>>
  /\ doc = [version |-> 0, pages |-> <<>>, edits |-> 0, meta |-> documentMeta(<<>>)]
  /\ engine = [created |-> FALSE, allEntities |-> <<>>, pagesThen |-> <<>>]
  /\ result = [elements |-> <<>>, mutationLog |-> <<>>]
  /\ derived = NothingDerived
  /\ promises = NoPromises
  /\ last = [op |-> "", sel |-> <<>>, attrs |-> <<>>, ret |-> JUndefined,
             version |-> 0, logLen |-> 0]

SpecY == InitY /\ [][NextY]_vars

\* the label of the call that has returned holds the keyword, in any case
LabelHolds(keyword) ==
  /\ pure.fn = "detectEntityType" /\ pure.called
  /\ Includes(ToLowerCase(pure.args[2]), keyword)

\* C28 (as stated, the more specific keyword first): whatever the text, a
\* label containing 'subtotal' is classified subtotal, a label containing
\* 'total' (and not 'subtotal') is classified total, and a label containing
\* 'date' (and not 'total') is classified date.
C28_LabelHint ==
  /\ LabelHolds(Name.subtotal) => pure.ret = Name.subtotal
  /\ LabelHolds(Name.total) /\ ~LabelHolds(Name.subtotal) => pure.ret = Name.total
  /\ LabelHolds(Name.date) /\ ~LabelHolds(Name.total) => pure.ret = Name.date

\* C28 (what the code guarantees): a label containing 'total' is classified
\* total, also when it contains 'subtotal' or 'date'; a label containing
\* 'date' and not 'total' is classified date; no call returns subtotal.
C28_TotalFirst ==
  /\ LabelHolds(Name.total) => pure.ret = Name.total
  /\ LabelHolds(Name.date) /\ ~LabelHolds(Name.total) => pure.ret = Name.date
  /\ pure.fn = "detectEntityType" /\ pure.called => pure.ret # Name.subtotal

\* a text that is a currency amount under the label 'Subtotal' was
\* classified total
C28_SubtotalIsTotal ==
  /\ LabelHolds(Name.subtotal)
  /\ CURRENCY_PATTERN(Trim(pure.args[1]))
  /\ pure.ret = Name.total

----------------------------------------------------------------------------
(* Claims about reading back a write (checked under SpecW)                 *)

\* every entity of the result resolves key to value after the step, and so
\* does attr(key) on the result
ReadsBack(key, value) ==
  /\ getEntityAttr(ents'[result'.elements[1]], key) = value
  /\ \A i \in ElementSet : getEntityAttr(ents'[i], key) = value

\* C29 (as stated): for any key k and any value v other than undefined,
\* immediately after attr(k, v) on a non-empty QueryResult, attr(k) returns v
\* and every entity of the result resolves k to v, whether k routes to meta,
\* to a top-level field, or is a custom key that shadows a top-level field.
C29_ReadYourWrites ==
  [][/\ (last'.op = "attr" /\ Len(result.elements) > 0) =>
          ReadsBack(last'.attrs[1][1], last'.attrs[1][2])
     /\ (/\ last.op = "attr" /\ last'.op = "attrGet"
         /\ last'.attrs[1][1] = last.attrs[1][1]
         /\ Len(result.elements) > 0) =>
          last'.ret = last.attrs[1][2]]_vars

\* C29 (what the code guarantees): the same for every key but '__proto__';
\* attr('__proto__', v) with a v that is no object writes nothing, and
\* attr('__proto__') goes on returning Object.prototype.
C29_ReadYourWritesOwnKeys ==
  [][/\ (last'.op = "attr" /\ Len(result.elements) > 0) =>
          IF last'.attrs[1][1] # Key.proto
          THEN ReadsBack(last'.attrs[1][1], last'.attrs[1][2])
          ELSE ents' = ents /\ ReadsBack(Key.proto, ObjectPrototype)
     /\ (/\ last.op = "attr" /\ last'.op = "attrGet"
         /\ last'.attrs[1][1] = last.attrs[1][1]
         /\ Len(result.elements) > 0) =>
          last'.ret = IF last.attrs[1][1] # Key.proto THEN last.attrs[1][2]
                      ELSE ObjectPrototype]_vars

\* attr('id', v) and then attr('id') on a result of several entities: the
\* custom key shadows the top-level id and reads back
C29_ShadowReadsBack ==
  /\ last.op = "attrGet" /\ last.attrs[1][1] = Key.id
  /\ Len(result.elements) >= 2
  /\ last.ret = JStr(Name.low)
  /\ ents[result.elements[1]].id # Name.low

\* attr('__proto__', v) was logged for every entity of the result and read
\* back as Object.prototype
C29_ProtoDoesNotReadBack ==
  /\ last.op = "attrGet" /\ last.attrs[1][1] = Key.proto
  /\ last.ret = ObjectPrototype
  /\ Len(result.elements) > 0
  /\ \A i \in ElementSet :
       \E n \in 1..Len(result.mutationLog) :
         /\ result.mutationLog[n].entityId = ents[i].id
         /\ result.mutationLog[n].field = Key.proto
         /\ result.mutationLog[n].newValue = JStr(Name.low)

----------------------------------------------------------------------------
(* Claims about replaying the log (checked under SpecA)                    *)

\* the positions in the log after the step of the records the step appended
\* for the entity and the field
Appended(entity, field) ==
  {n \in (Len(result.mutationLog) + 1)..Len(result'.mutationLog) :
     /\ result'.mutationLog[n].entityId = entity.id
     /\ result'.mutationLog[n].pageIndex = entity.pageIndex
     /\ result'.mutationLog[n].field = field}

LastOf(positions) == CHOOSE n \in positions : \A m \in positions : m <= n

\* the value the entity resolves for the field once the records the step
\* appended are applied to the entity as it was before the step: newValue of
\* the last of them (undefined when the field is removed), the value before
\* the step when there is none
Replayed(entity, field) ==
  IF Appended(entity, field) = {} THEN getEntityAttr(entity, field)
  ELSE result'.mutationLog[LastOf(Appended(entity, field))].newValue

LoggedFields == {result'.mutationLog[n].field : n \in 1..Len(result'.mutationLog)}

\* each record the step appended holds as oldValue what the entity resolved
\* just before that write: the value before the step for the first record of
\* an entity and a field, the value of the record before it for the others
OldValuesFaithful ==
  \A i \in 1..Len(ents), field \in LoggedFields :
    \A n \in Appended(ents[i], field) :
      result'.mutationLog[n].oldValue =
        IF \E m \in Appended(ents[i], field) : m < n
        THEN result'.mutationLog[LastOf({m \in Appended(ents[i], field) : m < n})].newValue
        ELSE getEntityAttr(ents[i], field)

\* C30 (as stated): after any sequence of attr, removeAttr and toggleAttr
\* calls on a QueryResult, applying the records of changes() in order to the
\* entities as they were before (setting the recorded field to newValue,
\* removing it when newValue is undefined) reproduces the value every entity
\* currently resolves for every logged field, and each record's oldValue is
\* the value the entity resolved for that field immediately before the write.
\* Stated call by call: the records a call appends, applied to the entities
\* as the call found them, give the values the entities resolve after it.
C30_LogReplay ==
  [][last'.op \in {"attr", "removeAttr", "toggleAttr"} =>
       /\ \A i \in 1..Len(ents), field \in LoggedFields :
            getEntityAttr(ents'[i], field) = Replayed(ents[i], field)
       /\ OldValuesFaithful]_vars

\* C30 (what the code guarantees): the same, but for the removal of a field
\* that is a top-level field of the entity: removeAttr logs it with newValue
\* undefined and leaves the field (or, for a custom key of meta that shadowed
\* it, uncovers the field).
C30_LogReplayButTopLevelRemovals ==
  [][last'.op \in {"attr", "removeAttr", "toggleAttr"} =>
       /\ \A i \in 1..Len(ents), field \in LoggedFields :
            IF Replayed(ents[i], field) = JUndefined /\ TopField(ents[i], field) # Absent
            THEN getEntityAttr(ents'[i], field) = TopField(ents[i], field)
            ELSE getEntityAttr(ents'[i], field) = Replayed(ents[i], field)
       /\ OldValuesFaithful]_vars

\* removeAttr('text') as the first call on a QueryResult: a record with
\* newValue undefined for an entity that still resolves its text
C30_RemovalNotApplied ==
  /\ last.op = "removeAttr" /\ last.attrs[1][1] = Key.text /\ last.logLen = 0
  /\ \E n \in 1..Len(result.mutationLog), i \in ElementSet :
       /\ result.mutationLog[n].entityId = ents[i].id
       /\ result.mutationLog[n].field = Key.text
       /\ result.mutationLog[n].newValue = JUndefined
       /\ getEntityAttr(ents[i], Key.text) = result.mutationLog[n].oldValue
       /\ getEntityAttr(ents[i], Key.text) # JUndefined
====
